---- MODULE Spec2Model ----
(***************************************************************************)
(* A model of the threading core of argweaver: the forward algorithm over  *)
(* local-tree blocks (arghmm_forward_alg and the block, switch and slow    *)
(* variants), the stochastic and maximum tracebacks, the threading         *)
(* drivers, and the emission engine of emit.cpp.                           *)
(*                                                                         *)
(* Numbers.  The program works on doubles.  Here every weight (transition  *)
(* probability, emission, prior) is a natural number; a forward column is  *)
(* the exact rational vector v[k]/d, kept in lowest terms.  Dividing a     *)
(* column by a zero norm gives 0/0 in every entry: that column is the NaN  *)
(* column, d = 0.  A log-space value is represented by the weight whose    *)
(* logarithm it is (-INFINITY is weight 0), and a sum of logs by the       *)
(* product of the weights: log is increasing, so every comparison of       *)
(* log-space values is a comparison of the weights.                        *)
(* Arrays keep the program's indices, 0..n-1.                              *)
(***************************************************************************)
EXTENDS Integers, Sequences, FiniteSets, TLC

VARIABLES
    bin, fwFast, fwSlow,          \* one block run by both block algorithms
    ein, emitFast, emitSlow,      \* one tree run by both emission calculations
    run,                          \* the call: driver, ARG, model, pins
    pc,                           \* where the driver is
    forward,                      \* the forward table, by site
    thread_path,                  \* the thread path, by site
    iter,                         \* the block the matrix iterator is at
    given,                        \* prior_given and last_state_given
    err,                          \* the assertion that stopped the run
    fw_log,                       \* the columns arghmm_forward_alg stored, in order
    path_log,                     \* the path entries the traceback stored, in order
    lnl,                          \* the running likelihood of stochastic_traceback
    threaded,                     \* the thread was added to the ARG (trees changed)
    lin, lout                     \* one call of a function of the inputs drawn, and what it left

blockVars == <<bin, fwFast, fwSlow>>

emitVars == <<ein, emitFast, emitSlow>>

driverVars ==
    <<run, pc, forward, thread_path, iter, given, err, fw_log, path_log, lnl, threaded>>

sitesVars == <<lin, lout>>

vars == <<blockVars, emitVars, driverVars, sitesVars>>

\* model->ntimes: the number of points of the time grid
ntimes == 3

\* the longest block of sites
MaxBlockLen == 3

-----------------------------------------------------------------------------
(* Arithmetic helpers *)

RECURSIVE SumRange(_, _, _)
SumRange(f, lo, hi) == IF lo > hi THEN 0 ELSE f[lo] + SumRange(f, lo + 1, hi)

RECURSIVE Gcd(_, _)
Gcd(a, b) == IF b = 0 THEN a ELSE Gcd(b, a % b)

RECURSIVE GcdRange(_, _, _)
GcdRange(f, lo, hi) == IF lo > hi THEN 0 ELSE Gcd(f[lo], GcdRange(f, lo + 1, hi))

Max2(a, b) == IF a >= b THEN a ELSE b

ZeroIdx(s) == [k \in 0..(Len(s) - 1) |-> s[k + 1]]

-----------------------------------------------------------------------------
(* Forward columns *)

\* the column whose n entries are all NaN (0/0)
NaNCol(n) == [v |-> [k \in 0..(n - 1) |-> 0], d |-> 0]

\* col[k] /= norm for every k, norm being the sum of the entries
Normalize(num, n) ==
    LET tot == SumRange(num, 0, n - 1)
        g == GcdRange(num, 0, n - 1)
    IN IF tot = 0 THEN NaNCol(n)
       ELSE [v |-> [k \in 0..(n - 1) |-> num[k] \div g], d |-> tot \div g]

\* the column holding the weights w as they are (no normalization)
RawCol(w, n) == [v |-> [k \in 0..(n - 1) |-> w[k]], d |-> 1]

\* a column of a freshly allocated block: nothing has been stored in it
Unwritten == [v |-> <<>>, d |-> -1]

ColSumsToOne(col, n) == col.d > 0 /\ SumRange(col.v, 0, n - 1) = col.d

\* max_array(col, n) > 0.0; false for a NaN column
max_array_positive(col, n) == col.d > 0 /\ \E k \in 0..(n - 1) : col.v[k] > 0

-----------------------------------------------------------------------------
(* Local trees.  nodes[i] = [parent, child, age]; parent = -1 at the root, *)
(* child = <<-1, -1>> at a leaf.                                           *)

Children(c0, c1) == [x \in 0..1 |-> IF x = 0 THEN c0 ELSE c1]

Leaf(p) == [parent |-> p, child |-> Children(-1, -1), age |-> 0]

Inner(p, c0, c1, a) == [parent |-> p, child |-> Children(c0, c1), age |-> a]

\* one leaf
TreeLeaf == [nnodes |-> 1, root |-> 0, nodes |-> [i \in {0} |-> Leaf(-1)]]

\* two leaves under a root of age a
TreeCherry(a) ==
    [nnodes |-> 3, root |-> 2,
     nodes |-> [i \in 0..2 |-> IF i = 2 THEN Inner(-1, 0, 1, a) ELSE Leaf(2)]]

\* internal threading: the removed root (age ntimes + 1) over the subtree
\* root (child 0, the leaf 1) and the maintree root (child 1, the leaf 0)
TreeRemovedLeaf ==
    [nnodes |-> 3, root |-> 2,
     nodes |-> [i \in 0..2 |-> IF i = 2 THEN Inner(-1, 1, 0, ntimes + 1) ELSE Leaf(2)]]

\* internal threading: the subtree is the cherry 0,1 of age 1 (node 3), the
\* maintree is the leaf 2
TreeRemovedCherry ==
    [nnodes |-> 5, root |-> 4,
     nodes |-> [i \in 0..4 |->
        CASE i = 4 -> Inner(-1, 3, 2, ntimes + 1)
          [] i = 3 -> Inner(4, 0, 1, 1)
          [] i = 2 -> Leaf(4)
          [] OTHER -> Leaf(3)]]

is_leaf(tree, i) == tree.nodes[i].child[0] = -1

-----------------------------------------------------------------------------
(* States of a block *)

State(node, time) == [node |-> node, time |-> time]

RECURSIVE StatesOfBranch(_, _, _)
StatesOfBranch(i, lo, hi) ==
    IF lo > hi THEN <<>> ELSE <<State(i, lo)>> \o StatesOfBranch(i, lo + 1, hi)

RECURSIVE CoalStatesFrom(_, _, _)
CoalStatesFrom(tree, nt, i) ==
    IF i >= tree.nnodes THEN <<>>
    ELSE LET n == tree.nodes[i]
             hi == IF n.parent = -1 THEN nt - 2 ELSE tree.nodes[n.parent].age
         IN StatesOfBranch(i, n.age, hi) \o CoalStatesFrom(tree, nt, i + 1)

\* is node i inside the maintree (below or at child 1 of the root)?
RECURSIVE InMaintree(_, _)
InMaintree(tree, i) ==
    IF i = tree.root THEN FALSE
    ELSE IF i = tree.nodes[tree.root].child[1] THEN TRUE
    ELSE IF i = tree.nodes[tree.root].child[0] THEN FALSE
    ELSE InMaintree(tree, tree.nodes[i].parent)

RECURSIVE CoalStatesInternalFrom(_, _, _)
CoalStatesInternalFrom(tree, nt, i) ==
    IF i >= tree.nnodes THEN <<>>
    ELSE LET n == tree.nodes[i]
             minage == tree.nodes[tree.nodes[tree.root].child[0]].age
             lo == Max2(n.age, minage)
             hi == IF n.parent = tree.root THEN nt - 2 ELSE tree.nodes[n.parent].age
         IN (IF InMaintree(tree, i) THEN StatesOfBranch(i, lo, hi) ELSE <<>>)
            \o CoalStatesInternalFrom(tree, nt, i + 1)

\* get_coal_states(tree, ntimes, states, internal): per branch, in
\* increasing time from max(age, minage); empty for a fully specified tree
get_coal_states(tree, nt, internal) ==
    IF ~internal THEN ZeroIdx(CoalStatesFrom(tree, nt, 0))
    ELSE IF tree.nodes[tree.root].age < nt THEN ZeroIdx(<<>>)
    ELSE ZeroIdx(CoalStatesInternalFrom(tree, nt, 0))

NStates(states) == Cardinality(DOMAIN states)

\* a lookup that answers with the first index whatever the branch
state_lookup_first(states, node, time) ==
    IF \E j \in DOMAIN states : states[j] = State(node, time) THEN 0 ELSE -1

\* NodeStateLookup::lookup(node, time): index of the state, or -1
state_lookup(states, node, time) ==
    IF \E j \in DOMAIN states : states[j] = State(node, time)
    THEN CHOOSE j \in DOMAIN states : states[j] = State(node, time)
    ELSE -1

\* find_vector(states, state): index of the state, or -1
find_vector(states, s) ==
    IF \E j \in DOMAIN states : states[j] = s
    THEN CHOOSE j \in DOMAIN states : states[j] = s
    ELSE -1

-----------------------------------------------------------------------------
(* The transition operator of a block (TransMatrix).  tp selects one of a  *)
(* few operators: 0 has no recombination (a state only continues as        *)
(* itself), 1 and 2 are dense.                                             *)

TransParams == 0..2

\* get_time(a, b, c, minage, false): the time-only baseline
time_only(tp, a, b, minage) ==
    CASE tp = 0 -> 0
      [] tp = 1 -> 1
      [] OTHER -> 1 + ((a + 2 * b + minage) % 2)

\* get_time(a, b, c, minage, true): source and destination on one branch
\* whose lower end has age c
same_branch(tp, a, b, c, minage) ==
    CASE tp = 0 -> IF a = b THEN 1 ELSE 0
      [] tp = 1 -> IF b = minage THEN 2 ELSE IF a = minage THEN 3 ELSE 0
      [] OTHER -> time_only(tp, a, b, minage) + (IF a = b THEN 2 ELSE 0)
                  + (IF c < b THEN 1 ELSE 0)

get_time(matrix, a, b, c, minage, same) ==
    IF same THEN same_branch(matrix.tp, a, b, c, minage)
    ELSE time_only(matrix.tp, a, b, minage)

TransMatrix(tp, internal, nstates) ==
    [tp |-> tp, internal |-> internal, nstates |-> nstates]

\* TransMatrix::get(tree, states, j, k): the dense entry T(j -> k)
matrix_get(matrix, tree, states, j, k) ==
    IF matrix.internal /\ matrix.nstates = 0 THEN 1
    ELSE LET minage == IF matrix.internal
                       THEN tree.nodes[tree.nodes[tree.root].child[0]].age ELSE 0
         IN get_time(matrix, states[j].time, states[k].time,
                     tree.nodes[states[k].node].age, minage,
                     states[j].node = states[k].node)

\* TransMatrix::get_log: the weight whose logarithm the program returns
matrix_get_log(matrix, tree, states, j, k) == matrix_get(matrix, tree, states, j, k)

-----------------------------------------------------------------------------
(* The forward algorithm inside one block *)

\* the same-branch correction of one destination state k (the loop over
\* j = indexes[node2].., a = age1..age2)
RECURSIVE SameBranchSum(_, _, _, _, _, _)
SameBranchSum(tmatrix2, col1, k, j, a, age2) ==
    IF a > age2 THEN 0
    ELSE tmatrix2[a][k] * col1.v[j] + SameBranchSum(tmatrix2, col1, k, j + 1, a + 1, age2)

\* a step whose contraction leaves out the source time ntimes - 2
ForwardColumn_shortsum(ctx, col1, emit2) ==
    LET nstates == ctx.nstates
        states == ctx.states
        fgroups == [a \in 0..(ctx.ntimes - 1) |->
            SumRange([j \in 0..(nstates - 1) |->
                        IF states[j].time = a THEN col1.v[j] ELSE 0], 0, nstates - 1)]
        tmatrix_fgroups == [b \in 0..(ctx.ntimes - 2) |->
            SumRange([a \in 0..(ctx.ntimes - 2) |-> ctx.tmatrix[a][b] * fgroups[a]],
                     0, ctx.ntimes - 3)]
        col2 == [k \in 0..(nstates - 1) |->
            LET b == states[k].time
                node2 == states[k].node
            IN (tmatrix_fgroups[b]
                + SameBranchSum(ctx.tmatrix2, col1, k, ctx.indexes[node2],
                                ctx.ages1[node2], ctx.ages2[node2])) * emit2[k]]
    IN Normalize(col2, nstates)

\* the reads of the same-branch loop of one destination state k: the index
\* j and the time a of every col1[j] it adds
RECURSIVE SameBranchReads(_, _, _, _)
SameBranchReads(k, j, a, age2) ==
    IF a > age2 THEN {}
    ELSE {[k |-> k, j |-> j, a |-> a]} \cup SameBranchReads(k, j + 1, a + 1, age2)

\* one column of the factored step: fgroups, tmatrix * fgroups, then the
\* same-branch correction and the emission; the column is then normalized
ForwardColumn(ctx, col1, emit2) ==
    LET nstates == ctx.nstates
        states == ctx.states
        fgroups == [a \in 0..(ctx.ntimes - 1) |->
            SumRange([j \in 0..(nstates - 1) |->
                        IF states[j].time = a THEN col1.v[j] ELSE 0], 0, nstates - 1)]
        tmatrix_fgroups == [b \in 0..(ctx.ntimes - 2) |->
            SumRange([a \in 0..(ctx.ntimes - 2) |-> ctx.tmatrix[a][b] * fgroups[a]],
                     0, ctx.ntimes - 2)]
        col2 == [k \in 0..(nstates - 1) |->
            LET b == states[k].time
                node2 == states[k].node
            IN (tmatrix_fgroups[b]
                + SameBranchSum(ctx.tmatrix2, col1, k, ctx.indexes[node2],
                                ctx.ages1[node2], ctx.ages2[node2])) * emit2[k]]
    IN Normalize(col2, nstates)

\* a loop that takes the emission row of the last column for every column
RECURSIVE ForwardBlockLoop_lastemit(_, _, _)
ForwardBlockLoop_lastemit(ctx, i, fw) ==
    IF i >= ctx.blocklen THEN [cols |-> fw, ok |-> TRUE]
    ELSE IF fw[i - 1].d = 0 THEN [cols |-> fw, ok |-> FALSE]
    ELSE ForwardBlockLoop_lastemit(ctx, i + 1,
            [fw EXCEPT ![i] = ForwardColumn(ctx, fw[i - 1], ctx.emit[ctx.blocklen - 1])])

\* the loop over the columns i = 1..blocklen-1; assert(!isnan(col1[k]))
\* stops the run when the previous column is NaN
RECURSIVE ForwardBlockLoop(_, _, _)
ForwardBlockLoop(ctx, i, fw) ==
    IF i >= ctx.blocklen THEN [cols |-> fw, ok |-> TRUE]
    ELSE IF fw[i - 1].d = 0 THEN [cols |-> fw, ok |-> FALSE]
    ELSE ForwardBlockLoop(ctx, i + 1,
            [fw EXCEPT ![i] = ForwardColumn(ctx, fw[i - 1], ctx.emit[i])])

\* a fully given case that stores nothing
CopyForward_none(i, blocklen, fw) == fw

\* the fully given case: fw[i][0] = fw[i-1][0]
RECURSIVE CopyForward(_, _, _)
CopyForward(i, blocklen, fw) ==
    IF i >= blocklen THEN fw
    ELSE CopyForward(i + 1, blocklen, [fw EXCEPT ![i] = fw[i - 1]])

MaxStateTime(states) ==
    IF DOMAIN states = {} THEN 0
    ELSE CHOOSE t \in {states[k].time : k \in DOMAIN states} :
            \A k \in DOMAIN states : states[k].time <= t

\* arghmm_forward_block: fw[0] is pre-populated, fw[1..blocklen-1] are
\* computed; the result is the block's columns and whether no assertion
\* stopped the run
arghmm_forward_block(tree, nt, blocklen, states, matrix, emit, fw) ==
    LET nstates == NStates(states)
        nodes == tree.nodes
        subtree_root == IF matrix.internal THEN nodes[tree.root].child[0] ELSE 0
        maintree_root == IF matrix.internal THEN nodes[tree.root].child[1] ELSE 0
        minage == IF matrix.internal /\ nodes[subtree_root].age > 0
                  THEN nodes[subtree_root].age ELSE 0
    IN IF matrix.internal /\ nstates = 0
       THEN [cols |-> CopyForward(1, blocklen, fw), ok |-> TRUE, branch_reads |-> {}]
       ELSE LET maxtime == MaxStateTime(states)
                ages1 == [i \in 0..(tree.nnodes - 1) |-> Max2(nodes[i].age, minage)]
                ctx == [ntimes |-> nt, blocklen |-> blocklen, states |-> states,
                        nstates |-> nstates, emit |-> emit,
                        tmatrix |-> [a \in 0..(nt - 2) |-> [b \in 0..(nt - 2) |->
                            get_time(matrix, a, b, 0, minage, FALSE)]],
                        tmatrix2 |-> [a \in 0..(nt - 2) |-> [k \in 0..(nstates - 1) |->
                            get_time(matrix, a, states[k].time,
                                     nodes[states[k].node].age, minage, TRUE)
                            - get_time(matrix, a, states[k].time, 0, minage, FALSE)]],
                        ages1 |-> ages1,
                        indexes |-> [i \in 0..(tree.nnodes - 1) |->
                            state_lookup(states, i, ages1[i])],
                        ages2 |-> [i \in 0..(tree.nnodes - 1) |->
                            IF matrix.internal
                            THEN (IF i = maintree_root \/ i = tree.root THEN maxtime
                                  ELSE nodes[nodes[i].parent].age)
                            ELSE (IF i = tree.root THEN maxtime
                                  ELSE nodes[nodes[i].parent].age)]]
                res == ForwardBlockLoop(ctx, 1, fw)
            IN [cols |-> res.cols, ok |-> res.ok,
                branch_reads |-> IF blocklen < 2 THEN {}
                    ELSE UNION {SameBranchReads(k, ctx.indexes[states[k].node],
                                                ctx.ages1[states[k].node],
                                                ctx.ages2[states[k].node]) :
                                k \in 0..(nstates - 1)}]

\* one column of the slow step: the full nstates x nstates matrix
SlowColumn(transmat, nstates, col1, emit2) ==
    Normalize([k \in 0..(nstates - 1) |->
        SumRange([j \in 0..(nstates - 1) |-> col1.v[j] * transmat[j][k]],
                 0, nstates - 1) * emit2[k]], nstates)

RECURSIVE SlowBlockLoop(_, _, _, _, _, _)
SlowBlockLoop(transmat, nstates, blocklen, emit, i, fw) ==
    IF i >= blocklen THEN fw
    ELSE SlowBlockLoop(transmat, nstates, blocklen, emit, i + 1,
            [fw EXCEPT ![i] = IF nstates = 0 THEN fw[i]
                              ELSE SlowColumn(transmat, nstates, fw[i - 1], emit[i])])

\* arghmm_forward_block_slow: no assertion, and with no state nothing is
\* stored in any column
arghmm_forward_block_slow(tree, nt, blocklen, states, matrix, emit, fw) ==
    LET nstates == NStates(states)
        transmat == [j \in 0..(nstates - 1) |-> [k \in 0..(nstates - 1) |->
                        matrix_get(matrix, tree, states, j, k)]]
    IN [cols |-> SlowBlockLoop(transmat, nstates, blocklen, emit, 1, fw), ok |-> TRUE,
        branch_reads |-> {}]


-----------------------------------------------------------------------------
(* Inputs: emissions, first columns, the trees of a block *)

EmitParams == 0..2

\* matrices.emit of the block that starts at site start: emit[i][k] for the
\* site start + i.  ep 0: every emission 1; ep 1: emissions vary with site
\* and state; ep 2: every state has emission 0 at site 1 (mu = 0 and a
\* variant site)
emit_at(ep, site, k) ==
    CASE ep = 0 -> 1
      [] ep = 1 -> 1 + ((site + k) % 2)
      [] OTHER -> IF site = 1 THEN 0 ELSE 1

BlockEmit(ep, start, blocklen, n) ==
    [i \in 0..(blocklen - 1) |-> [k \in 0..(n - 1) |-> emit_at(ep, start + i, k)]]

OneHot(j, n) == [v |-> [k \in 0..(n - 1) |-> IF k = j THEN 1 ELSE 0], d |-> 1]

\* first columns: one-hot, uniform and increasing, each summing to 1
FirstCols(n) ==
    {OneHot(j, n) : j \in 0..(n - 1)}
    \cup {Normalize([k \in 0..(n - 1) |-> 1], n),
          Normalize([k \in 0..(n - 1) |-> k + 1], n)}

\* what a column nobody stored into may hold
GarbageCols(n) == {NaNCol(n), OneHot(0, n)}

ExternalTrees == {TreeLeaf, TreeCherry(0), TreeCherry(1)}

InternalTrees == {TreeRemovedLeaf, TreeRemovedCherry, TreeCherry(1)}

-----------------------------------------------------------------------------
(* SpecBlock: the two block algorithms on the same inputs *)

NotRun == [ran |-> FALSE]

\* the emission variables while the emission calculations are not run
EmitIdle == ein = NotRun /\ emitFast = NotRun /\ emitSlow = NotRun

\* the driver variables while no driver is run
DriverIdle ==
    /\ run = [driver |-> "none"]
    /\ pc = "idle"
    /\ forward = <<>>
    /\ thread_path = <<>>
    /\ iter = 0
    /\ given = [prior |-> FALSE, last_state |-> FALSE]
    /\ err = ""
    /\ fw_log = <<>>
    /\ path_log = <<>>
    /\ lnl = <<>>
    /\ threaded = FALSE

\* the variables of the likelihood_sites call while it is not made
SitesIdle == lin = NotRun /\ lout = NotRun

Ran(res) == [ran |-> TRUE, cols |-> res.cols, ok |-> res.ok, reads |-> res.branch_reads]

BlockInputs ==
    {[tree |-> t, internal |-> FALSE] : t \in ExternalTrees}
    \cup {[tree |-> t, internal |-> TRUE] : t \in InternalTrees}

InitBlock ==
    /\ \E b \in BlockInputs, tp \in TransParams, ep \in EmitParams,
          blocklen \in 1..MaxBlockLen :
         LET n == Max2(NStates(get_coal_states(b.tree, ntimes, b.internal)), 1)
         IN \E col0 \in FirstCols(n), g \in GarbageCols(n) :
              bin = [tree |-> b.tree, internal |-> b.internal, tp |-> tp, ep |-> ep,
                     blocklen |-> blocklen,
                     fw |-> [i \in 0..(blocklen - 1) |-> IF i = 0 THEN col0 ELSE g]]
    /\ fwFast = NotRun
    /\ fwSlow = NotRun
    /\ EmitIdle
    /\ DriverIdle
    /\ SitesIdle

BlockCall(F(_, _, _, _, _, _, _)) ==
    LET states == get_coal_states(bin.tree, ntimes, bin.internal)
        n == Max2(NStates(states), 1)
    IN F(bin.tree, ntimes, bin.blocklen, states,
         TransMatrix(bin.tp, bin.internal, NStates(states)),
         BlockEmit(bin.ep, 0, bin.blocklen, n), bin.fw)

RunForwardBlock ==
    /\ ~fwFast.ran
    /\ fwFast' = Ran(BlockCall(arghmm_forward_block))
    /\ UNCHANGED <<bin, fwSlow, driverVars, emitVars, sitesVars>>

RunForwardBlockSlow ==
    /\ ~fwSlow.ran
    /\ fwSlow' = Ran(BlockCall(arghmm_forward_block_slow))
    /\ UNCHANGED <<bin, fwFast, driverVars, emitVars, sitesVars>>

NextBlock == RunForwardBlock \/ RunForwardBlockSlow

SpecBlock == InitBlock /\ [][NextBlock]_vars

BothBlocksRan == fwFast.ran /\ fwSlow.ran /\ fwFast.ok

\* C8: on the same first column, states, emissions and transition operator
\* the factored block and the slow block leave the same column at every site
C8_FactoredEqualsSlow == BothBlocksRan => fwFast.cols = fwSlow.cols

-----------------------------------------------------------------------------
(* The switch operator of a block boundary (TransMatrixSwitch).  Arrays    *)
(* have max(nstates, 1) entries.  sp 0: every source continues as the      *)
(* state of the same index (determ the identity where it exists), no       *)
(* recombination or recoalescence source; sp 1: source 0 recombines, the   *)
(* last source recoalesces, the others move deterministically.             *)

SwitchParams == 0..1

TransMatrixSwitch(sp, n1, n2) ==
    LET m1 == Max2(n1, 1)
        m2 == Max2(n2, 1)
    IN [nstates1 |-> n1, nstates2 |-> n2,
        determ |-> [j \in 0..(m1 - 1) |->
            IF sp = 0 THEN (IF j < m2 THEN j ELSE -1) ELSE j % m2],
        determprob |-> [j \in 0..(m1 - 1) |-> IF sp = 0 THEN 1 ELSE 2],
        recombsrc |-> IF sp = 1 THEN 0 ELSE -1,
        recoalsrc |-> IF sp = 1 /\ m1 >= 2 THEN m1 - 1 ELSE -1,
        recombrow |-> [k \in 0..(m2 - 1) |-> IF sp = 1 /\ k % 2 = 0 THEN 1 ELSE 0],
        recoalrow |-> [k \in 0..(m2 - 1) |-> IF sp = 1 THEN 1 ELSE 0]]

\* TransMatrixSwitch::get(j, k): the probability of the step j -> k
switch_get(matrix, j, k) ==
    IF j = matrix.recoalsrc THEN matrix.recoalrow[k]
    ELSE IF j = matrix.recombsrc THEN matrix.recombrow[k]
    ELSE IF matrix.determ[j] = k THEN matrix.determprob[j]
    ELSE 0

\* TransMatrixSwitch::get_log: the weight whose logarithm the program returns
switch_get_log(matrix, j, k) == switch_get(matrix, j, k)

\* a switch step that leaves out the emission of the new column
arghmm_forward_switch_noemit(col1, matrix, emit) ==
    LET nstates1 == Max2(matrix.nstates1, 1)
        nstates2 == Max2(matrix.nstates2, 1)
        col2 == [k \in 0..(nstates2 - 1) |->
            SumRange([j \in 0..(nstates1 - 1) |->
                col1.v[j] * switch_get(matrix, j, k)], 0, nstates1 - 1)]
    IN IF col1.d = 0 THEN [col |-> NaNCol(nstates2), ok |-> TRUE]
       ELSE IF \A k \in 0..(nstates2 - 1) : col2[k] <= 0
       THEN [col |-> [v |-> col2, d |-> col1.d], ok |-> FALSE]
       ELSE [col |-> Normalize(col2, nstates2), ok |-> TRUE]

\* arghmm_forward_switch: one column across a boundary.  col2 is stored
\* before the assertion on its maximum, and normalized after it
arghmm_forward_switch(col1, matrix, emit) ==
    LET nstates1 == Max2(matrix.nstates1, 1)
        nstates2 == Max2(matrix.nstates2, 1)
        determined == [k \in 0..(nstates2 - 1) |->
            SumRange([j \in 0..(nstates1 - 1) |->
                IF j # matrix.recombsrc /\ j # matrix.recoalsrc
                   /\ matrix.determ[j] = k
                THEN col1.v[j] * matrix.determprob[j] ELSE 0], 0, nstates1 - 1)]
        col2 == [k \in 0..(nstates2 - 1) |->
            (determined[k]
             + (IF matrix.recombsrc # -1 /\ matrix.recombrow[k] > 0
                THEN col1.v[matrix.recombsrc] * matrix.recombrow[k] ELSE 0)
             + (IF matrix.recoalsrc # -1 /\ matrix.recoalrow[k] > 0
                THEN col1.v[matrix.recoalsrc] * matrix.recoalrow[k] ELSE 0))
            * emit[k]]
    IN IF col1.d = 0 THEN [col |-> NaNCol(nstates2), ok |-> TRUE]
       ELSE IF \A k \in 0..(nstates2 - 1) : col2[k] <= 0
       THEN [col |-> [v |-> col2, d |-> col1.d], ok |-> FALSE]
       ELSE [col |-> Normalize(col2, nstates2), ok |-> TRUE]

-----------------------------------------------------------------------------
(* The ARG and its blocks, as the matrix iterator exposes them *)

\* the most blocks of an ARG
MaxBlocks == 2

\* the most sites of an ARG
MaxSites == 3

\* trees->start_coord
start_coord == 0

NoSwitch == [nstates1 |-> -1]

HasSwitch(sw) == sw.nstates1 # -1

\* the blocks of an ARG: the first has no switch operator; a later block
\* either continues the tree of the block before it (no switch operator) or
\* has a switch operator from the states of the block before it
Block(tree, blocklen, sw) == [tree |-> tree, blocklen |-> blocklen, sw |-> sw]

NStatesOf(tree, internal) == NStates(get_coal_states(tree, ntimes, internal))

\* the local trees of an ARG: with 2 and 5 states; with 2, 1 and 0 states
TreesOf(internal) ==
    IF internal THEN InternalTrees ELSE {TreeLeaf, TreeCherry(1)}

RECURSIVE SitesOf(_)
SitesOf(blocks) ==
    IF blocks = <<>> THEN 0 ELSE blocks[1].blocklen + SitesOf(Tail(blocks))

\* the ARGs with one more block than blocks
Extensions(blocks, internal) ==
    LET last == blocks[Len(blocks)]
        lens == {l \in 1..MaxBlockLen : SitesOf(blocks) + l <= MaxSites}
    IN {Append(blocks, Block(last.tree, l, NoSwitch)) : l \in lens}
       \cup {Append(blocks,
                    Block(t, l, TransMatrixSwitch(sp, NStatesOf(last.tree, internal),
                                                  NStatesOf(t, internal)))) :
                t \in TreesOf(internal), l \in lens, sp \in SwitchParams}

RECURSIVE BlockSeqsOfLen(_, _)
BlockSeqsOfLen(internal, n) ==
    IF n = 1
    THEN {<<Block(t, l, NoSwitch)>> : t \in TreesOf(internal), l \in 1..MaxBlockLen}
    ELSE UNION {Extensions(blocks, internal) : blocks \in BlockSeqsOfLen(internal, n - 1)}

BlockSeqs(internal) == UNION {BlockSeqsOfLen(internal, n) : n \in 1..MaxBlocks}

RECURSIVE BlockStart(_, _)
BlockStart(blocks, b) ==
    IF b <= 1 THEN start_coord ELSE BlockStart(blocks, b - 1) + blocks[b - 1].blocklen

end_coord(blocks) == BlockStart(blocks, Len(blocks) + 1)

\* calc_state_priors: the prior over the states of the first block; with
\* no state, priors[0] = 1
calc_state_priors(states) ==
    LET n == NStates(states)
    IN IF n = 0 THEN OneHot(0, 1)
       ELSE Normalize([k \in 0..(n - 1) |-> 1 + states[k].time], n)

-----------------------------------------------------------------------------
(* arghmm_forward_alg: one iteration of the loop over the blocks *)

\* matrices.emit of block blk; a block without states has emit[i][0] = 1
matrices_emit(a, blk) ==
    LET b == a.blocks[blk]
        n == NStatesOf(b.tree, a.internal)
    IN IF n = 0 THEN [i \in 0..(b.blocklen - 1) |-> [k \in 0..0 |-> 1]]
       ELSE BlockEmit(a.ep, BlockStart(a.blocks, blk), b.blocklen, n)

\* what reading a column gives: what was stored in it, or, when nothing
\* was, whatever the memory holds
ReadCol(col, n) == IF col.d = -1 THEN GarbageCols(n) ELSE {col}

\* forward->new_block(pos, pos + blocklen, nstates)
new_block(fw, pos, blocklen) ==
    [p \in DOMAIN fw |-> IF pos <= p /\ p < pos + blocklen THEN Unwritten ELSE fw[p]]

\* an entry of a log: the position stored into and the operator that gave
\* the value
Stored(pos, op) == [pos |-> pos, op |-> op]

\* "for (int i=0; ...": a block loop that also stores its column 0
BlockWrites_from0(off, blocklen, cols) ==
    [n \in 1..blocklen |-> Stored(off + n - 1, "block")]

\* "for (int i=1; i<blocklen; i++) ... fw[i]": the columns a block function
\* stored, in the order of its loop; cols is what it left
BlockWrites(off, blocklen, cols) ==
    SelectSeq([n \in 1..(blocklen - 1) |-> Stored(off + n, "block")],
              LAMBDA e : cols[e.pos - off] # Unwritten)

\* the body of the loop for block blk, prev being what fw[pos-1] (or, at
\* start_coord with a given prior, fw[pos]) reads as: the table after the
\* body, and whether an assertion stopped the run (err names it)
ForwardAlgBody(a, blk, prior_given, slow, fw, prev) ==
    LET b == a.blocks[blk]
        tree == b.tree
        pos == BlockStart(a.blocks, blk)
        states == get_coal_states(tree, ntimes, a.internal)
        transmat == TransMatrix(a.tp, a.internal, NStates(states))
        emit == matrices_emit(a, blk)
        nstates == Max2(transmat.nstates, 1)
        allocated == IF pos > start_coord \/ ~prior_given
                     THEN new_block(fw, pos, b.blocklen) ELSE fw
        continued == pos # start_coord /\ ~HasSwitch(b.sw)
        switch == IF pos # start_coord /\ HasSwitch(b.sw)
                  THEN arghmm_forward_switch(prev, b.sw, emit[0])
                  ELSE [col |-> prev, ok |-> TRUE]
        \* the table once the first column of the block is in place
        first == IF pos = start_coord
                 THEN (IF ~prior_given
                       THEN [allocated EXCEPT ![pos] = calc_state_priors(states)]
                       ELSE allocated)
                 ELSE IF HasSwitch(b.sw) THEN [allocated EXCEPT ![pos] = switch.col]
                 ELSE allocated
        \* fw_block[0] as the block reads it
        col0 == IF pos = start_coord
                THEN (IF ~prior_given THEN calc_state_priors(states) ELSE prev)
                ELSE switch.col
        off == IF continued THEN pos - 1 ELSE pos
        blocklen == IF continued THEN b.blocklen + 1 ELSE b.blocklen
        emit_block == [i \in 0..(blocklen - 1) |->
                        IF continued THEN (IF i = 0 THEN <<>> ELSE emit[i - 1])
                        ELSE emit[i]]
        fw_block == [i \in 0..(blocklen - 1) |-> IF i = 0 THEN col0 ELSE first[off + i]]
        res == IF slow
               THEN arghmm_forward_block_slow(tree, ntimes, blocklen, states,
                                              transmat, emit_block, fw_block)
               ELSE arghmm_forward_block(tree, ntimes, blocklen, states,
                                         transmat, emit_block, fw_block)
        filled == [p \in DOMAIN fw |->
                    IF off < p /\ p < off + blocklen THEN res.cols[p - off]
                    ELSE first[p]]
        last == IF blocklen = 1 THEN col0 ELSE res.cols[blocklen - 1]
        \* the columns stored: the first one by the prior or the switch, the
        \* others by the block function
        firstlog == IF pos = start_coord
                    THEN (IF ~prior_given THEN <<Stored(pos, "prior")>> ELSE <<>>)
                    ELSE IF HasSwitch(b.sw) THEN <<Stored(pos, "switch")>>
                    ELSE <<>>
        blocklog == BlockWrites(off, blocklen, res.cols)
    IN IF ~switch.ok
       THEN {[fw |-> first, ok |-> FALSE, err |-> "switch: top <= 0.0", log |-> firstlog]}
       ELSE IF ~max_array_positive(col0, nstates)
       THEN {[fw |-> first, ok |-> FALSE, err |-> "top > 0.0", log |-> firstlog]}
       ELSE IF ~res.ok
       THEN {[fw |-> filled, ok |-> FALSE, err |-> "!isnan(col1[k])",
              log |-> firstlog \o blocklog]}
       ELSE {[fw |-> filled, ok |-> max_array_positive(top2, nstates),
              err |-> IF max_array_positive(top2, nstates) THEN "" ELSE "top2 > 0.0",
              log |-> firstlog \o blocklog] :
                top2 \in ReadCol(last, nstates)}

\* arghmm_forward_alg, one iteration of the loop over the blocks
arghmm_forward_alg_block(a, blk, prior_given, slow, fw) ==
    LET pos == BlockStart(a.blocks, blk)
        readpos == IF pos = start_coord THEN pos ELSE pos - 1
        readblk == IF pos = start_coord THEN blk ELSE blk - 1
        n == Max2(NStatesOf(a.blocks[readblk].tree, a.internal), 1)
    IN UNION {ForwardAlgBody(a, blk, prior_given, slow, fw, prev) :
                prev \in IF pos = start_coord /\ ~prior_given THEN {Unwritten}
                         ELSE ReadCol(fw[readpos], n)}

-----------------------------------------------------------------------------
(* Sampling tracebacks *)

\* path entries nothing was stored in
PathUnset == -1

\* sample(weights, n): an index drawn in proportion to its weight; with no
\* positive weight nothing constrains the index
sample(weights, n) ==
    LET positive == {i \in 0..(n - 1) : weights[i] > 0}
    IN IF positive # {} THEN positive ELSE 0..(n - 1)

\* the loop of sample_hmm_posterior from i down to 0, on &fw[off], &path[off];
\* assert(trans[path[i]] != 0.0) stops the run, and so does the fault of
\* reading states[k] for a k that is no state
RECURSIVE SamplePosteriorLoop(_, _, _, _)
SamplePosteriorLoop(ctx, i, fw, path) ==
    IF i < 0 THEN {[path |-> path, ok |-> TRUE, log |-> <<>>]}
    ELSE IF path[ctx.off + i + 1] \notin 0..(ctx.nstates - 1)
    THEN {[path |-> path, ok |-> FALSE, log |-> <<>>]}
    ELSE LET k == path[ctx.off + i + 1]
             trans == [j \in 0..(ctx.nstates - 1) |->
                         matrix_get(ctx.matrix, ctx.tree, ctx.states, j, k)]
             A == [j \in 0..(ctx.nstates - 1) |-> fw[ctx.off + i].v[j] * trans[j]]
         IN UNION {
              LET path2 == [path EXCEPT ![ctx.off + i] = c]
                  stored == <<Stored(ctx.off + i, "block")>>
              IN IF trans[c] = 0 THEN {[path |-> path2, ok |-> FALSE, log |-> stored]}
                 ELSE {[r EXCEPT !.log = stored \o @] :
                         r \in SamplePosteriorLoop(ctx, i - 1, fw, path2)} :
              c \in sample(A, ctx.nstates)}

sample_hmm_posterior(blocklen, tree, states, matrix, fw, path, off) ==
    SamplePosteriorLoop([off |-> off, tree |-> tree, states |-> states,
                         matrix |-> matrix, nstates |-> Max2(NStates(states), 1)],
                        blocklen - 2, fw, path)

\* sample_hmm_posterior_step with the state count of the wrong side of the
\* switch: nstates2 where the code has nstates1
sample_hmm_posterior_step_nstates2(matrix, col1, state2) ==
    LET nstates1 == Max2(matrix.nstates2, 1)
        inside(j) == j < Max2(matrix.nstates1, 1)
        A == [j \in 0..(nstates1 - 1) |->
                IF inside(j) THEN col1.v[j] * switch_get(matrix, j, state2) ELSE 1]
    IN {[k |-> c, ok |-> inside(c) => switch_get(matrix, c, state2) # 0] :
          c \in sample(A, nstates1)}

\* sample_hmm_posterior_step: the state before a switch, and whether
\* assert(matrix->get(k, state2) != 0.0) passed
sample_hmm_posterior_step(matrix, col1, state2) ==
    LET nstates1 == Max2(matrix.nstates1, 1)
        A == [j \in 0..(nstates1 - 1) |-> col1.v[j] * switch_get(matrix, j, state2)]
    IN {[k |-> c, ok |-> switch_get(matrix, c, state2) # 0] : c \in sample(A, nstates1)}

\* a term of the running likelihood: the value num/den, or its logarithm
Term(log, num, den) == [log |-> log, num |-> num, den |-> den]

\* choosing the last column without looking at last_state_given
stochastic_traceback_begin_always(a, fw, path, last_state_given) ==
    LET pos == end_coord(a.blocks)
        nstates == Max2(NStatesOf(a.blocks[Len(a.blocks)].tree, a.internal), 1)
    IN {[path |-> [path EXCEPT ![pos - 1] = c],
         lnl |-> <<Term(FALSE, fw[pos - 1].v[c], fw[pos - 1].d)>>,
         log |-> <<Stored(pos - 1, "last")>>] :
          c \in sample(fw[pos - 1].v, nstates)}

\* stochastic_traceback, "choose last column first":
\* lnl = fw[pos-1][path[pos-1]]
stochastic_traceback_begin(a, fw, path, last_state_given) ==
    LET pos == end_coord(a.blocks)
        nstates == Max2(NStatesOf(a.blocks[Len(a.blocks)].tree, a.internal), 1)
    IN IF last_state_given THEN {[path |-> path, lnl |-> <<>>, log |-> <<>>]}
       ELSE {[path |-> [path EXCEPT ![pos - 1] = c],
              lnl |-> <<Term(FALSE, fw[pos - 1].v[c], fw[pos - 1].d)>>,
              log |-> <<Stored(pos - 1, "last")>>] :
               c \in sample(fw[pos - 1].v, nstates)}

\* an iteration that, at a boundary without switch, draws path[pos-1] from
\* the forward column alone
stochastic_traceback_block_fwonly(a, blk, pos, fw, path) ==
    LET mat == a.blocks[blk]
        tree == mat.tree
        states == get_coal_states(tree, ntimes, a.internal)
        transmat == TransMatrix(a.tp, a.internal, NStates(states))
    IN UNION {
         IF ~r.ok \/ pos <= start_coord
         THEN {[path |-> r.path, ok |-> r.ok, log |-> r.log, lnl |-> <<>>]}
         ELSE IF HasSwitch(mat.sw)
         THEN {[path |-> IF s.ok THEN [r.path EXCEPT ![pos - 1] = s.k] ELSE r.path,
                ok |-> s.ok,
                log |-> IF s.ok THEN r.log \o <<Stored(pos - 1, "switch")>> ELSE r.log,
                lnl |-> <<>>] :
                 s \in sample_hmm_posterior_step(mat.sw, fw[pos - 1], r.path[pos])}
         ELSE {[path |-> [r.path EXCEPT ![pos - 1] = c], ok |-> TRUE,
                log |-> r.log \o <<Stored(pos - 1, "block")>>, lnl |-> <<>>] :
                 c \in sample(fw[pos - 1].v, Max2(NStates(states), 1))} :
         r \in sample_hmm_posterior(mat.blocklen, tree, states, transmat, fw, path, pos)}

\* stochastic_traceback, one iteration of the loop over the blocks; pos is
\* the start of block blk
stochastic_traceback_block(a, blk, pos, fw, path) ==
    LET mat == a.blocks[blk]
        tree == mat.tree
        states == get_coal_states(tree, ntimes, a.internal)
        transmat == TransMatrix(a.tp, a.internal, NStates(states))
    IN UNION {
         IF ~r.ok \/ pos <= start_coord
         THEN {[path |-> r.path, ok |-> r.ok, log |-> r.log, lnl |-> <<>>]}
         ELSE IF HasSwitch(mat.sw)
         THEN {[path |-> IF s.ok THEN [r.path EXCEPT ![pos - 1] = s.k] ELSE r.path,
                ok |-> s.ok,
                log |-> IF s.ok THEN r.log \o <<Stored(pos - 1, "switch")>> ELSE r.log,
                \* lnl += log(fw[i][path[i]] * get(path[i], path[i+1])), for a
                \* state the column has
                lnl |-> IF s.ok /\ s.k \in DOMAIN fw[pos - 1].v
                        THEN <<Term(TRUE, fw[pos - 1].v[s.k]
                                            * switch_get(mat.sw, s.k, r.path[pos]),
                                    fw[pos - 1].d)>>
                        ELSE <<>>] :
                 s \in sample_hmm_posterior_step(mat.sw, fw[pos - 1], r.path[pos])}
         ELSE {[path |-> q.path, ok |-> q.ok, log |-> r.log \o q.log, lnl |-> <<>>] :
                 q \in sample_hmm_posterior(2, tree, states, transmat, fw, r.path, pos - 1)} :
         r \in sample_hmm_posterior(mat.blocklen, tree, states, transmat, fw, path, pos)}

-----------------------------------------------------------------------------
(* Maximum tracebacks *)

\* the index the loops "if (prob > maxprob)" end with: the first index of
\* the largest value; 0 when there is nothing to compare
ArgMaxFirst(w, n) ==
    IF n <= 0 THEN 0
    ELSE CHOOSE j \in 0..(n - 1) :
            /\ \A i \in 0..(n - 1) : w[i] <= w[j]
            /\ \A i \in 0..(j - 1) : w[i] < w[j]

\* what reading path[p] gives: the stored state, or, when nothing was
\* stored, any value; OutOfRange stands for the values that are no state
OutOfRange == -2

ReadPath(path, p, nstates) ==
    IF path[p] = PathUnset THEN (0..(nstates - 1)) \cup {OutOfRange} ELSE {path[p]}

\* the loop of max_hmm_posterior from i down to 0, on &fw[off], &path[off]
RECURSIVE MaxPosteriorLoop(_, _, _, _)
MaxPosteriorLoop(ctx, i, fw, path) ==
    IF i < 0 THEN {[path |-> path, ok |-> TRUE, log |-> <<>>]}
    ELSE UNION {
           IF k = OutOfRange THEN {[path |-> path, ok |-> FALSE, log |-> <<>>]}
           ELSE LET trans == [j \in 0..(ctx.nstates - 1) |->
                        matrix_get_log(ctx.matrix, ctx.tree, ctx.states, j, k)]
                    prob == [j \in 0..(ctx.nstates - 1) |->
                        fw[ctx.off + i].v[j] * trans[j]]
                    maxj == ArgMaxFirst(prob, ctx.nstates)
                IN {[r EXCEPT !.log = <<Stored(ctx.off + i, "block")>> \o @] :
                      r \in MaxPosteriorLoop(ctx, i - 1, fw,
                                             [path EXCEPT ![ctx.off + i] = maxj])} :
           k \in ReadPath(path, ctx.off + i + 1, ctx.nstates)}

\* max_hmm_posterior(n, ...): fills path[n-2], .., path[0] from path[n-1]
max_hmm_posterior(n, tree, states, matrix, fw, path, off) ==
    MaxPosteriorLoop([off |-> off, tree |-> tree, states |-> states,
                      matrix |-> matrix, nstates |-> NStates(states)],
                     n - 2, fw, path)

\* max_hmm_posterior_step: the best state before a switch
max_hmm_posterior_step(matrix, col1, state2) ==
    ArgMaxFirst([j \in 0..(matrix.nstates1 - 1) |->
                    col1.v[j] * switch_get_log(matrix, j, state2)], matrix.nstates1)

\* max_traceback, "choose last column first"
max_traceback_begin(a, fw, path, last_state_given) ==
    LET pos == end_coord(a.blocks)
        nstates == NStatesOf(a.blocks[Len(a.blocks)].tree, a.internal)
    IN IF last_state_given THEN {[path |-> path, lnl |-> <<>>, log |-> <<>>]}
       ELSE {[path |-> [path EXCEPT ![pos - 1] = ArgMaxFirst(fw[pos - 1].v, nstates)],
              lnl |-> <<>>, log |-> <<Stored(pos - 1, "last")>>]}

\* max_traceback, one iteration of the loop over the blocks; pos is the
\* start of block blk
max_traceback_block(a, blk, pos, fw, path) ==
    LET mat == a.blocks[blk]
        tree == mat.tree
        states == get_coal_states(tree, ntimes, a.internal)
        transmat == TransMatrix(a.tp, a.internal, NStates(states))
    IN UNION {
         IF ~r.ok \/ pos <= start_coord
         THEN {[path |-> r.path, ok |-> r.ok, log |-> r.log, lnl |-> <<>>]}
         ELSE IF HasSwitch(mat.sw)
         THEN {IF state2 = OutOfRange
               THEN [path |-> r.path, ok |-> FALSE, log |-> r.log, lnl |-> <<>>]
               ELSE [path |-> [r.path EXCEPT ![pos - 1] =
                                 max_hmm_posterior_step(mat.sw, fw[pos - 1], state2)],
                     ok |-> TRUE, log |-> r.log \o <<Stored(pos - 1, "switch")>>,
                     lnl |-> <<>>] :
                 state2 \in ReadPath(r.path, pos, Max2(mat.sw.nstates2, 1))}
         ELSE {[path |-> q.path, ok |-> q.ok, log |-> r.log \o q.log, lnl |-> <<>>] :
                 q \in max_hmm_posterior(1, tree, states, transmat, fw, r.path, pos - 1)} :
         r \in max_hmm_posterior(mat.blocklen, tree, states, transmat, fw, path, pos)}

-----------------------------------------------------------------------------
(* The threading drivers *)

CondDriver(d) == d \in {"cond_sample_arg_thread", "cond_sample_arg_thread_internal"}

MaxDriver(d) == d \in {"max_arg_thread", "max_traceback"}

\* the drivers that end with add_arg_thread / add_arg_thread_path
AddsThread(d) ==
    d \in {"sample_arg_thread", "sample_arg_thread_internal", "cond_sample_arg_thread",
           "cond_sample_arg_thread_internal", "max_arg_thread"}

\* State::is_null
NullState == State(-1, -1)

is_null(state) == state.node = -1

\* a state no block has: its time is past the grid
AbsentState == State(0, ntimes)

\* the states a caller pins an end of the thread to
Pins(states) ==
    {NullState, AbsentState}
    \cup (IF DOMAIN states = {} THEN {}
          ELSE {states[0], states[NStates(states) - 1]})

\* the prior[] arrays a caller of the C entry point passes
CallerPriors(n) ==
    {RawCol([k \in 0..(n - 1) |-> 1], n), Normalize([k \in 0..(n - 1) |-> 1], n),
     OneHot(0, n), RawCol([k \in 0..(n - 1) |-> 0], n)}

\* the calls: a driver on an ARG with a transition operator and emissions
Arg(blocks, internal, tp, ep) ==
    [blocks |-> blocks, internal |-> internal, tp |-> tp, ep |-> ep]

Args(internal) ==
    {Arg(blocks, internal, tp, ep) :
        blocks \in BlockSeqs(internal), tp \in TransParams, ep \in EmitParams}

FirstStates(a) == get_coal_states(a.blocks[1].tree, ntimes, a.internal)

LastStates(a) == get_coal_states(a.blocks[Len(a.blocks)].tree, ntimes, a.internal)

Call(driver, a, slow, pg, prior, start_state, end_state) ==
    [driver |-> driver, arg |-> a, slow |-> slow, prior_given |-> pg,
     prior |-> prior, start_state |-> start_state, end_state |-> end_state]

Calls ==
    {Call(d, a, FALSE, FALSE, Unwritten, NullState, NullState) :
        d \in {"sample_arg_thread", "max_arg_thread"}, a \in Args(FALSE)}
    \cup {Call("sample_arg_thread_internal", a, FALSE, FALSE, Unwritten,
               NullState, NullState) : a \in Args(TRUE)}
    \cup UNION {{Call("cond_sample_arg_thread", a, FALSE, TRUE, Unwritten, s, e) :
                    s \in Pins(FirstStates(a)), e \in Pins(LastStates(a))} :
                a \in Args(FALSE)}
    \cup UNION {{Call("cond_sample_arg_thread_internal", a, FALSE, TRUE, Unwritten, s, e) :
                    s \in Pins(FirstStates(a)), e \in Pins(LastStates(a))} :
                a \in Args(TRUE)}
    \cup UNION {{Call("arghmm_forward_alg", a, slow, FALSE, Unwritten,
                      NullState, NullState) : slow \in BOOLEAN} :
                a \in Args(FALSE) \cup Args(TRUE)}
    \cup UNION {{Call("arghmm_forward_alg", a, slow, TRUE, prior, NullState, NullState) :
                    slow \in BOOLEAN,
                    prior \in CallerPriors(NStates(FirstStates(a)))} :
                a \in Args(FALSE) \cup Args(TRUE)}
    \cup UNION {{Call("max_traceback", a, FALSE, FALSE, Unwritten, NullState, e) :
                    e \in Pins(LastStates(a)) \ {NullState, AbsentState}} :
                a \in Args(FALSE)}

Sites(a) == start_coord..(end_coord(a.blocks) - 1)

\* ArgHmmForwardTable forward(start_coord, length), new int [length]
Init ==
    /\ bin = NotRun
    /\ fwFast = NotRun
    /\ fwSlow = NotRun
    /\ EmitIdle
    /\ run \in Calls
    /\ pc = "begin"
    /\ forward = [p \in Sites(run.arg) |-> Unwritten]
    /\ thread_path = [p \in Sites(run.arg) |-> PathUnset]
    /\ iter = 1
    /\ given = [prior |-> FALSE, last_state |-> FALSE]
    /\ err = ""
    /\ fw_log = <<>>
    /\ path_log = <<>>
    /\ lnl = <<>>
    /\ threaded = FALSE
    /\ SitesIdle

Abort(e) == pc' = "abort" /\ err' = e

\* the drivers up to their call of arghmm_forward_alg: the first column of
\* the forward table when the caller gives it
PinStart(internal) ==
    LET states == FirstStates(run.arg)
        n == NStates(states)
        j == find_vector(states, run.start_state)
        first == new_block(forward, start_coord, run.arg.blocks[1].blocklen)
    IN IF internal /\ n = 0
       THEN /\ forward' = [first EXCEPT ![start_coord] = OneHot(0, 1)]
            /\ given' = [given EXCEPT !.prior = TRUE]
            /\ pc' = "forward"
            /\ err' = err
       ELSE IF internal /\ is_null(run.start_state)
       THEN /\ forward' = first
            /\ given' = [given EXCEPT !.prior = FALSE]
            /\ pc' = "forward"
            /\ err' = err
       ELSE IF j = -1
       THEN /\ forward' = first
            /\ given' = [given EXCEPT !.prior = TRUE]
            /\ Abort("j != -1")
       ELSE /\ forward' = [first EXCEPT ![start_coord] = OneHot(j, n)]
            /\ given' = [given EXCEPT !.prior = TRUE]
            /\ pc' = "forward"
            /\ err' = err

\* the C entry point: forward[0][i] = prior[i] for every state i
CopyPrior ==
    LET n == NStates(FirstStates(run.arg))
        first == new_block(forward, start_coord, run.arg.blocks[1].blocklen)
    IN /\ forward' = IF run.prior_given /\ n > 0
                THEN [first EXCEPT ![start_coord] = run.prior] ELSE forward
       /\ given' = [given EXCEPT !.prior = run.prior_given]
       /\ pc' = "forward"
       /\ err' = err

DriverBegin ==
    /\ pc = "begin"
    /\ CASE run.driver = "cond_sample_arg_thread" -> PinStart(FALSE)
         [] run.driver = "cond_sample_arg_thread_internal" -> PinStart(TRUE)
         [] run.driver = "arghmm_forward_alg" -> CopyPrior
         [] OTHER -> /\ pc' = "forward"
                     /\ UNCHANGED <<forward, given, err>>
    /\ UNCHANGED <<run, thread_path, iter, fw_log, path_log, lnl, threaded>>
    /\ UNCHANGED <<blockVars, emitVars, sitesVars>>

\* arghmm_forward_alg: the body of the loop for the block the iterator is at
ForwardAlgBlock ==
    /\ pc = "forward"
    /\ \E r \in arghmm_forward_alg_block(run.arg, iter, given.prior, run.slow, forward) :
         /\ forward' = r.fw
         /\ fw_log' = fw_log \o r.log
         /\ IF ~r.ok THEN Abort(r.err) /\ iter' = iter
            ELSE /\ err' = err
                 /\ IF iter < Len(run.arg.blocks)
                    THEN pc' = pc /\ iter' = iter + 1
                    ELSE /\ iter' = iter
                         /\ pc' = IF run.driver = "arghmm_forward_alg" THEN "done"
                                  ELSE "pin_end"
    /\ UNCHANGED <<run, thread_path, given, path_log, lnl, threaded>>
    /\ UNCHANGED <<blockVars, emitVars, sitesVars>>

\* the drivers between the forward table and the traceback: the last state
\* when the caller gives it
PinEndState ==
    /\ pc = "pin_end"
    /\ LET states == LastStates(run.arg)
           e == end_coord(run.arg.blocks) - 1
           j == find_vector(states, run.end_state)
           internal == run.driver = "cond_sample_arg_thread_internal"
       IN IF ~CondDriver(run.driver) /\ run.driver # "max_traceback"
          THEN /\ pc' = "trace_begin"
               /\ UNCHANGED <<thread_path, given, err>>
          ELSE IF internal /\ NStates(states) = 0
          THEN /\ thread_path' = [thread_path EXCEPT ![e] = 0]
               /\ given' = [given EXCEPT !.last_state = TRUE]
               /\ pc' = "trace_begin"
               /\ err' = err
          ELSE IF internal /\ is_null(run.end_state)
          THEN /\ given' = [given EXCEPT !.last_state = FALSE]
               /\ pc' = "trace_begin"
               /\ UNCHANGED <<thread_path, err>>
          ELSE /\ thread_path' = [thread_path EXCEPT ![e] = j]
               /\ given' = [given EXCEPT !.last_state = TRUE]
               /\ IF j = -1 THEN Abort("thread_path[trees->end_coord-1] != -1")
                  ELSE pc' = "trace_begin" /\ err' = err
    /\ UNCHANGED <<run, forward, iter, fw_log, path_log, lnl, threaded>>
    /\ UNCHANGED <<blockVars, emitVars, sitesVars>>

\* a traceback whose first step stores into the forward table
TracebackBegin_scribble ==
    /\ pc = "trace_begin"
    /\ \E r \in IF MaxDriver(run.driver)
                THEN max_traceback_begin(run.arg, forward, thread_path, given.last_state)
                ELSE stochastic_traceback_begin(run.arg, forward, thread_path,
                                                given.last_state) :
         /\ thread_path' = r.path
         /\ path_log' = path_log \o r.log
         /\ lnl' = r.lnl
    /\ forward' = [forward EXCEPT ![start_coord] = NaNCol(1)]
    /\ iter' = Len(run.arg.blocks)
    /\ pc' = "trace"
    /\ UNCHANGED <<run, given, err, fw_log, threaded>>
    /\ UNCHANGED <<blockVars, emitVars, sitesVars>>

\* stochastic_traceback / max_traceback: the last column
TracebackBegin ==
    /\ pc = "trace_begin"
    /\ \E r \in IF MaxDriver(run.driver)
                THEN max_traceback_begin(run.arg, forward, thread_path, given.last_state)
                ELSE stochastic_traceback_begin(run.arg, forward, thread_path,
                                                given.last_state) :
         /\ thread_path' = r.path
         /\ path_log' = path_log \o r.log
         /\ lnl' = r.lnl
    /\ iter' = Len(run.arg.blocks)
    /\ pc' = "trace"
    /\ UNCHANGED <<run, forward, given, err, fw_log, threaded>>
    /\ UNCHANGED <<blockVars, emitVars, sitesVars>>

\* stochastic_traceback / max_traceback: the body of the loop for the block
\* the iterator is at
TracebackBlock ==
    /\ pc = "trace"
    /\ \E r \in IF MaxDriver(run.driver)
                THEN max_traceback_block(run.arg, iter, BlockStart(run.arg.blocks, iter),
                                         forward, thread_path)
                ELSE stochastic_traceback_block(run.arg, iter,
                                                BlockStart(run.arg.blocks, iter), forward, thread_path) :
         /\ thread_path' = r.path
         /\ path_log' = path_log \o r.log
         /\ lnl' = lnl \o r.lnl
         /\ IF ~r.ok
            THEN /\ iter' = iter
                 /\ Abort(IF MaxDriver(run.driver) THEN "state out of range"
                          ELSE "transition != 0.0")
            ELSE /\ err' = err
                 /\ IF iter > 1 THEN pc' = pc /\ iter' = iter - 1
                    ELSE pc' = "traced" /\ iter' = iter
    /\ UNCHANGED <<run, forward, given, fw_log, threaded>>
    /\ UNCHANGED <<blockVars, emitVars, sitesVars>>

\* the drivers after the traceback:
\* assert(forward[start_coord][thread_path[start_coord]] == 1.0)
DriverEnd ==
    /\ pc = "traced"
    /\ LET col == forward[start_coord]
           checked == \/ run.driver = "cond_sample_arg_thread"
                      \/ /\ run.driver = "cond_sample_arg_thread_internal"
                         /\ ~is_null(run.start_state)
       IN IF checked /\ ~(col.d > 0 /\ col.v[thread_path[start_coord]] = col.d)
          THEN Abort("forward[start_coord][thread_path[start_coord]] == 1.0")
                 /\ threaded' = threaded
          ELSE /\ pc' = "done"
               /\ err' = err
               /\ threaded' = AddsThread(run.driver)
    /\ UNCHANGED <<run, forward, thread_path, iter, given, fw_log, path_log, lnl>>
    /\ UNCHANGED <<blockVars, emitVars, sitesVars>>

Next ==
    \/ DriverBegin
    \/ ForwardAlgBlock
    \/ PinEndState
    \/ TracebackBegin
    \/ TracebackBlock
    \/ DriverEnd

Spec == Init /\ [][Next]_vars

-----------------------------------------------------------------------------
(* Emissions (emit.cpp).  A probability of a branch is kept as its         *)
(* numerator over 4 * ExpOne, a partial likelihood as the product of such  *)
(* numerators; the trees of one comparison have the same branches, so the  *)
(* denominators agree.  exp(-4/3 mu t) is 2^(-t) for a positive mu.        *)

\* the longest alignment
MaxSeqLen == 2

\* model->times: the time of each age, in steps longer than mintime
times(a) == 2 * a

\* the numerator that stands for 1: 2 to the longest branch length
ExpOne == 2 ^ times(ntimes - 1)

\* model->mu: 0 or positive
MuParams == 0..1

\* model->get_mintime(): the floor of a branch length
mintime == 1

dna2int(c) == CASE c = "A" -> 0 [] c = "C" -> 1 [] c = "G" -> 2 [] OTHER -> 3

\* prob_branch(t, mu, mut)
prob_branch(t, mu, mut) ==
    LET e == IF mu = 0 THEN ExpOne ELSE ExpOne \div (2 ^ t)
    IN IF ~mut THEN ExpOne + 3 * e ELSE ExpOne - e

\* tree->get_num_leaves()
get_num_leaves(tree) == (tree.nnodes + 1) \div 2

\* tree->get_postorder(order): children before their parent, the root last
RECURSIVE PostorderFrom(_, _)
PostorderFrom(tree, i) ==
    IF is_leaf(tree, i) THEN <<i>>
    ELSE PostorderFrom(tree, tree.nodes[i].child[0])
         \o PostorderFrom(tree, tree.nodes[i].child[1]) \o <<i>>

get_postorder(tree) == PostorderFrom(tree, tree.root)

\* add_tree_branch(tree, node, time): the new leaf takes the index newleaf,
\* the node that had it moves to the index nnodes, and the new parent of
\* node and the new leaf, of age time, takes the index nnodes + 1
add_tree_branch(tree, node, time) ==
    LET newleaf == get_num_leaves(tree)
        displaced == tree.nnodes
        newcoal == tree.nnodes + 1
        to(i) == IF i = newleaf THEN displaced ELSE i
        from(i) == IF i = displaced THEN newleaf ELSE i
        node2 == to(node)
        moved(i) ==
            LET n == tree.nodes[from(i)]
            IN [parent |-> IF i = node2 THEN newcoal
                           ELSE IF n.parent = -1 THEN -1 ELSE to(n.parent),
                child |-> [x \in 0..1 |->
                             IF n.child[x] = -1 THEN -1
                             ELSE IF n.child[x] = node THEN newcoal
                             ELSE to(n.child[x])],
                age |-> n.age]
    IN [nnodes |-> tree.nnodes + 2,
        root |-> IF node = tree.root THEN newcoal ELSE to(tree.root),
        nodes |-> [i \in 0..(tree.nnodes + 1) |->
            IF i = newleaf THEN Leaf(newcoal)
            ELSE IF i = newcoal
            THEN Inner(IF tree.nodes[node].parent = -1 THEN -1
                       ELSE to(tree.nodes[node].parent), node2, newleaf, time)
            ELSE moved(i)]]

\* find_invariant_sites: no sequence differs from the first one
find_invariant_sites(seqs, nseqs, seqlen) ==
    [i \in 0..(seqlen - 1) |-> \A j \in 1..(nseqs - 1) : seqs[j][i] = seqs[0][i]]

\* lk_row: the partial likelihoods of one node, by base
lk_row(a, c, g, t) == (0 :> a) @@ (1 :> c) @@ (2 :> g) @@ (3 :> t)

\* likelihood_site_node_inner: the row of one node from the rows of its
\* children
likelihood_site_node_inner(tree, node, seqs, pos, muts, nomuts, inner) ==
    LET j == node
        c1 == tree.nodes[j].child[0]
        c2 == tree.nodes[j].child[1]
        p(c, a) == SumRange([b \in 0..3 |->
                      inner[c][b] * (IF a = b THEN nomuts[c] ELSE muts[c])], 0, 3)
        hit(a) == IF a = dna2int(seqs[j][pos]) THEN 1 ELSE 0
    IN [inner EXCEPT ![j] =
          IF is_leaf(tree, j)
          THEN (IF seqs[j][pos] = "N" THEN lk_row(1, 1, 1, 1)
                ELSE lk_row(hit(0), hit(1), hit(2), hit(3)))
          ELSE lk_row(p(c1, 0) * p(c2, 0), p(c1, 1) * p(c2, 1),
                      p(c1, 2) * p(c2, 2), p(c1, 3) * p(c2, 3))]

\* likelihood_site_inner: the nodes of order, then the sum over the root
RECURSIVE InnerLoop(_, _, _, _, _, _, _)
InnerLoop(tree, seqs, pos, order, muts, nomuts, inner) ==
    IF order = <<>> THEN inner
    ELSE InnerLoop(tree, seqs, pos, Tail(order), muts, nomuts,
            likelihood_site_node_inner(tree, Head(order), seqs, pos, muts, nomuts, inner))

likelihood_site_inner(tree, seqs, pos, order, muts, nomuts, inner) ==
    LET rows == InnerLoop(tree, seqs, pos, order, muts, nomuts, inner)
    IN [p |-> SumRange(rows[tree.root], 0, 3), inner |-> rows]

\* the nodes from j up to the root
RECURSIVE RootPath(_, _)
RootPath(tree, j) ==
    IF j = -1 THEN <<>> ELSE <<j>> \o RootPath(tree, tree.nodes[j].parent)

InSeq(x, seq) == \E i \in 1..Len(seq) : seq[i] = x

\* a walk from new_node that does not stop at the first dirty node
WalkToDirty_toRoot(tree, j, dirty) == [order |-> RootPath(tree, j), ok |-> TRUE]

\* "for (j = new_node; !dirty[j]; j = nodes[j].parent)": the nodes below the
\* first dirty one; past the root the loop reads dirty[-1]
RECURSIVE WalkToDirty(_, _, _)
WalkToDirty(tree, j, dirty) ==
    IF j = -1 THEN [order |-> <<>>, ok |-> FALSE]
    ELSE IF InSeq(j, dirty) THEN [order |-> <<>>, ok |-> TRUE]
    ELSE LET up == WalkToDirty(tree, tree.nodes[j].parent, dirty)
         IN [order |-> <<j>> \o up.order, ok |-> up.ok]

\* the branch length of node i, floored
BranchLen(tree, i) ==
    Max2(times(tree.nodes[tree.nodes[i].parent].age) - times(tree.nodes[i].age), mintime)

\* the branch lengths of a tree, 0 for the root, and their sum
BranchLens(tree) ==
    [i \in 0..(tree.nnodes - 1) |-> IF i = tree.root THEN 0 ELSE BranchLen(tree, i)]

TreeLen(tree) == SumRange(BranchLens(tree), 0, tree.nnodes - 1)

\* the value of an invariant site, 1/4 exp(-mu max(treelen, mintime)), kept
\* as the exponent mu * max(treelen, mintime)
InvariantLk(mu, treelen) == [invariant |-> TRUE, exponent |-> mu * Max2(treelen, mintime)]

SiteLk(p) == [invariant |-> FALSE, p |-> p]

\* the loop over the sites of likelihood_sites
RECURSIVE SitesLoop(_, _, _, _)
SitesLoop(c, i, emit, table) ==
    IF i >= c.seqlen
    THEN [emit |-> emit, table |-> table, ok |-> c.ok, order |-> c.order]
    ELSE IF c.invariant[i]
    THEN SitesLoop(c, i + 1, [emit EXCEPT ![i][c.statei] = c.invariant_lk], table)
    ELSE LET r == likelihood_site_inner(c.tree, c.seqs, i, c.order, c.muts, c.nomuts,
                                        table[i])
         IN SitesLoop(c, i + 1, [emit EXCEPT ![i][c.statei] = SiteLk(r.p)],
                      [table EXCEPT ![i] = r.inner])

\* likelihood_sites: the column statei of emit, site by site, and the table
likelihood_sites(tree, mu, seqs, seqlen, statei, invariant, emit, table, prev_node, new_node) ==
    LET dirty == RootPath(tree, prev_node)
        walk == WalkToDirty(tree, new_node, dirty)
        order == IF prev_node = -1 THEN get_postorder(tree) ELSE walk.order \o dirty
        t == BranchLens(tree)
        treelen == TreeLen(tree)
    IN SitesLoop([tree |-> tree, seqs |-> seqs, seqlen |-> seqlen, statei |-> statei,
                  invariant |-> invariant, order |-> order,
                  muts |-> [i \in 0..(tree.nnodes - 1) |-> prob_branch(t[i], mu, TRUE)],
                  nomuts |-> [i \in 0..(tree.nnodes - 1) |-> prob_branch(t[i], mu, FALSE)],
                  invariant_lk |-> InvariantLk(mu, treelen),
                  ok |-> prev_node = -1 \/ walk.ok],
                 0, emit, table)

\* one call of likelihood_sites by a loop over the states: the tree with
\* the branch of the state, the two attachment nodes the loop holds at that
\* point, and the nodes whose rows the call computes at a variable site
SitesCall(tree2, prev_node, new_node, order) ==
    [tree |-> tree2, prev_node |-> prev_node, new_node |-> new_node, order |-> order]

\* the loop over the states of calc_emissions; prev_node and new_node are
\* kept, and -1, -1 is what likelihood_sites gets
RECURSIVE CalcEmissionsLoop(_, _, _, _, _)
CalcEmissionsLoop(c, j, prev_node, table, emit) ==
    IF j >= NStates(c.states) THEN [emit |-> emit, ok |-> TRUE, calls |-> <<>>]
    ELSE LET state == c.states[j]
             newleaf == get_num_leaves(c.tree)
             tree2 == add_tree_branch(c.tree, state.node, state.time)
             new_node == IF state.node # newleaf THEN state.node ELSE c.tree.nnodes - 1
             r == likelihood_sites(tree2, c.mu, c.seqs, c.seqlen, j, c.invariant,
                                   emit, table, -1, -1)
             parent == c.tree.nodes[state.node].parent
             rest == CalcEmissionsLoop(c, j + 1,
                        IF parent # newleaf THEN parent ELSE c.tree.nnodes - 1,
                        r.table, r.emit)
         IN IF ~r.ok THEN [emit |-> emit, ok |-> FALSE, calls |-> <<>>]
            ELSE [rest EXCEPT !.calls =
                    <<SitesCall(tree2, prev_node, new_node, r.order)>> \o @]

\* an entry of emit nothing was stored in
EmitUnset == [invariant |-> FALSE, p |-> -1]

EmissionsCall(states, tree, seqs, nseqs, seqlen, mu) ==
    [states |-> states, tree |-> tree, seqs |-> seqs, seqlen |-> seqlen, mu |-> mu,
     invariant |-> find_invariant_sites(seqs, nseqs, seqlen)]

NewEmit(states, seqlen) ==
    [i \in 0..(seqlen - 1) |-> [k \in 0..(NStates(states) - 1) |-> EmitUnset]]

\* calc_emissions; table is what the freshly allocated LikelihoodTable holds
calc_emissions(states, tree, seqs, nseqs, seqlen, mu, table) ==
    CalcEmissionsLoop(EmissionsCall(states, tree, seqs, nseqs, seqlen, mu),
                      0, -1, table, NewEmit(states, seqlen))

\* a loop over the states that hands likelihood_sites no invariant sites
RECURSIVE CalcEmissionsSlowLoop_noinvariant(_, _, _, _)
CalcEmissionsSlowLoop_noinvariant(c, j, table, emit) ==
    IF j >= NStates(c.states) THEN [emit |-> emit, ok |-> TRUE, calls |-> <<>>]
    ELSE LET state == c.states[j]
             tree2 == add_tree_branch(c.tree, state.node, state.time)
             r == likelihood_sites(tree2, c.mu, c.seqs, c.seqlen, j,
                                   [i \in 0..(c.seqlen - 1) |-> FALSE],
                                   emit, table, -1, -1)
             rest == CalcEmissionsSlowLoop_noinvariant(c, j + 1, r.table, r.emit)
         IN [rest EXCEPT !.calls = <<SitesCall(tree2, -1, -1, r.order)>> \o @]

\* the loop over the states of calc_emissions_slow
RECURSIVE CalcEmissionsSlowLoop(_, _, _, _)
CalcEmissionsSlowLoop(c, j, table, emit) ==
    IF j >= NStates(c.states) THEN [emit |-> emit, ok |-> TRUE, calls |-> <<>>]
    ELSE LET state == c.states[j]
             tree2 == add_tree_branch(c.tree, state.node, state.time)
             r == likelihood_sites(tree2, c.mu, c.seqs, c.seqlen, j, c.invariant,
                                   emit, table, -1, -1)
             rest == CalcEmissionsSlowLoop(c, j + 1, r.table, r.emit)
         IN [rest EXCEPT !.calls = <<SitesCall(tree2, -1, -1, r.order)>> \o @]

calc_emissions_slow(states, tree, seqs, nseqs, seqlen, mu, table) ==
    CalcEmissionsSlowLoop(EmissionsCall(states, tree, seqs, nseqs, seqlen, mu),
                          0, table, NewEmit(states, seqlen))

-----------------------------------------------------------------------------
(* SpecEmit: the two emission calculations on the same inputs *)

Chars == {"A", "C", "N"}

\* what the rows of a freshly allocated table may hold
GarbageRows == {lk_row(0, 0, 0, 0), lk_row(1, 1, 1, 1)}

EmitTrees == {TreeLeaf, TreeCherry(1)}

InitEmit ==
    /\ \E tree \in EmitTrees, mu \in MuParams, seqlen \in 1..MaxSeqLen, g \in GarbageRows :
         LET nseqs == get_num_leaves(tree) + 1
         IN \E seqs \in [0..(nseqs - 1) -> [0..(seqlen - 1) -> Chars]] :
              ein = [ran |-> TRUE, tree |-> tree, mu |-> mu, seqs |-> seqs,
                     nseqs |-> nseqs, seqlen |-> seqlen,
                     table |-> [i \in 0..(seqlen - 1) |->
                                  [n \in 0..(tree.nnodes + 1) |-> g]]]
    /\ emitFast = NotRun
    /\ emitSlow = NotRun
    /\ bin = NotRun
    /\ fwFast = NotRun
    /\ fwSlow = NotRun
    /\ DriverIdle
    /\ SitesIdle

EmitCall(F(_, _, _, _, _, _, _)) ==
    LET r == F(get_coal_states(ein.tree, ntimes, FALSE), ein.tree, ein.seqs,
               ein.nseqs, ein.seqlen, ein.mu, ein.table)
    IN [ran |-> TRUE, emit |-> r.emit, ok |-> r.ok, calls |-> r.calls]

RunCalcEmissions ==
    /\ ~emitFast.ran
    /\ emitFast' = EmitCall(calc_emissions)
    /\ UNCHANGED <<ein, emitSlow, blockVars, driverVars, sitesVars>>

RunCalcEmissionsSlow ==
    /\ ~emitSlow.ran
    /\ emitSlow' = EmitCall(calc_emissions_slow)
    /\ UNCHANGED <<ein, emitFast, blockVars, driverVars, sitesVars>>

NextEmit == RunCalcEmissions \/ RunCalcEmissionsSlow

SpecEmit == InitEmit /\ [][NextEmit]_vars

\* C7: on the same tree, states and alignment calc_emissions and
\* calc_emissions_slow store the same value at every site and state (what
\* assert_emissions compares)
C7_EmissionsEqualSlow ==
    (emitFast.ran /\ emitSlow.ran) =>
        /\ emitFast.ok /\ emitSlow.ok
        /\ \A i \in 0..(ein.seqlen - 1) :
             \A j \in 0..(NStates(get_coal_states(ein.tree, ntimes, FALSE)) - 1) :
                emitFast.emit[i][j] = emitSlow.emit[i][j]

\* both calculations ran on a tree with several states and a site that is
\* not invariant, whose emission is not the same for every state
C7_Witness ==
    /\ emitFast.ran /\ emitSlow.ran
    /\ \E i \in 0..(ein.seqlen - 1) :
         /\ ~find_invariant_sites(ein.seqs, ein.nseqs, ein.seqlen)[i]
         /\ \E j, k \in DOMAIN emitFast.emit[i] :
              /\ emitFast.emit[i][j] # emitFast.emit[i][k]
              /\ emitFast.emit[i][j].p > 0

-----------------------------------------------------------------------------
(* Properties of the drivers *)

\* the block that holds site p
RECURSIVE BlockOf(_, _, _)
BlockOf(blocks, p, b) ==
    IF b >= Len(blocks) \/ p < BlockStart(blocks, b + 1) THEN b
    ELSE BlockOf(blocks, p, b + 1)

\* the length of the columns of site p
NStatesAt(a, p) == Max2(NStatesOf(a.blocks[BlockOf(a.blocks, p, 1)].tree, a.internal), 1)

ForwardReturned == pc \in {"pin_end", "trace_begin", "trace", "traced", "done"}

TracebackReturned ==
    pc \in {"traced", "done"} /\ run.driver # "arghmm_forward_alg"

\* C1: after arghmm_forward_alg returns, the column of every site of
\* [start_coord, end_coord) sums to 1, the first column included, whoever
\* filled it
C1_EveryColumnSumsToOne ==
    ForwardReturned =>
        \A p \in Sites(run.arg) : ColSumsToOne(forward[p], NStatesAt(run.arg, p))

\* the joint weight of a state path of a one-block ARG, as the forward table
\* accumulates it: the prior of the first state, and for every later site the
\* transition into its state times the emission of its state
RECURSIVE PathWeightFrom(_, _, _)
PathWeightFrom(a, p, i) ==
    LET states == FirstStates(a)
        matrix == TransMatrix(a.tp, a.internal, NStates(states))
        emit == matrices_emit(a, 1)
    IN IF i >= a.blocks[1].blocklen THEN 1
       ELSE matrix_get(matrix, a.blocks[1].tree, states, p[i - 1], p[i])
            * emit[i][p[i]] * PathWeightFrom(a, p, i + 1)

JointWeight(a, p) == calc_state_priors(FirstStates(a)).v[p[0]] * PathWeightFrom(a, p, 1)

\* C2: on an ARG of one block the path max_traceback writes has the largest
\* joint weight of all the state paths
C2_MaxTracebackIsViterbi ==
    (run.driver = "max_arg_thread" /\ TracebackReturned /\ Len(run.arg.blocks) = 1) =>
        \A p \in [Sites(run.arg) -> 0..(NStates(FirstStates(run.arg)) - 1)] :
            JointWeight(run.arg, p) <= JointWeight(run.arg, thread_path)

\* C3: after max_traceback returns, every site of [start_coord, end_coord)
\* holds a state the traceback wrote (or the pinned last state), the site
\* before a boundary without switch operator included
C3_EverySiteWritten ==
    (MaxDriver(run.driver) /\ TracebackReturned) =>
        \A p \in Sites(run.arg) : thread_path[p] # PathUnset

PinnedStartFound ==
    /\ CondDriver(run.driver)
    /\ find_vector(FirstStates(run.arg), run.start_state) # -1

\* C4: in the conditional drivers, when the start state is pinned and found
\* at index j, the traceback ends with path[start_coord] = j and
\* fw[start_coord][j] = 1, and the assertion after the traceback never fails
C4_PinnedStartKept ==
    PinnedStartFound =>
        LET j == find_vector(FirstStates(run.arg), run.start_state)
            col == forward[start_coord]
        IN /\ pc = "traced" => (thread_path[start_coord] = j /\ col.v[j] = col.d)
           /\ err # "fw[start_coord][thread_path[start_coord]] == 1.0"

\* C5: in the conditional drivers a null start state makes the first column
\* the state prior, a null end state has the last state sampled, and neither
\* stops the run
C5_NullPinIsSampled ==
    CondDriver(run.driver) =>
        /\ is_null(run.start_state) =>
              /\ err # "j != -1"
              /\ ForwardReturned =>
                    forward[start_coord] = calc_state_priors(FirstStates(run.arg))
        /\ is_null(run.end_state) =>
              /\ err # "thread_path[trees->end_coord-1] != -1"
              /\ pc = "trace_begin" => ~given.last_state

SamplingDriver(d) ==
    d \in {"sample_arg_thread", "sample_arg_thread_internal", "cond_sample_arg_thread",
           "cond_sample_arg_thread_internal"}

\* the state index i names a state of site p whose time is at least the age
\* of its branch and the age of the subtree root
NamesState(a, p, i) ==
    LET tree == a.blocks[BlockOf(a.blocks, p, 1)].tree
        states == get_coal_states(tree, ntimes, a.internal)
        minage == IF a.internal THEN tree.nodes[tree.nodes[tree.root].child[0]].age ELSE 0
    IN /\ i \in 0..(NStatesAt(a, p) - 1)
       /\ NStates(states) > 0 =>
             states[i].time >= Max2(tree.nodes[states[i].node].age, minage)

\* C6: every entry the stochastic traceback writes is a state index of the
\* block of its site (below max(nstates, 1)), the entry the switch step
\* writes before a boundary too, and after it returns every site has one
C6_PathNamesStatesOfItsBlock ==
    (SamplingDriver(run.driver) /\ pc \in {"trace", "traced", "done"}) =>
        \A p \in Sites(run.arg) :
            /\ thread_path[p] # PathUnset => NamesState(run.arg, p, thread_path[p])
            /\ TracebackReturned => thread_path[p] # PathUnset

\* a sampled path through a switch from a larger state set to a smaller one,
\* whose entry before the boundary is no state index of the later block
C6_Witness ==
    /\ SamplingDriver(run.driver) /\ pc = "done"
    /\ Len(run.arg.blocks) = 2
    /\ HasSwitch(run.arg.blocks[2].sw)
    /\ thread_path[BlockStart(run.arg.blocks, 2) - 1]
          >= Max2(run.arg.blocks[2].sw.nstates2, 1)

\* a column without mass: every entry 0 before normalization, NaN after
ZeroMass(col) == col.d # -1 /\ \A k \in DOMAIN col.v : col.v[k] = 0

\* arghmm_forward_alg has run the body of its loop at least once
ForwardAlgEntered == pc # "begin" /\ ~(pc = "forward" /\ iter = 1)

\* C9: a column without mass, at a block boundary or strictly inside a
\* block, stops arghmm_forward_alg at that column: no column after it is
\* computed
C9_ZeroMassColumnStopsRun ==
    ForwardAlgEntered =>
        \A p \in DOMAIN forward :
            ZeroMass(forward[p]) =>
                /\ pc = "abort"
                /\ \A q \in DOMAIN forward : q > p => forward[q] = Unwritten

\* the probability of the step from site p to site p + 1 of a path
StepProb(a, p, path) ==
    LET b == BlockOf(a.blocks, p + 1, 1)
        mat == a.blocks[b]
        states == get_coal_states(mat.tree, ntimes, a.internal)
    IN IF p + 1 = BlockStart(a.blocks, b) /\ HasSwitch(mat.sw)
       THEN switch_get(mat.sw, path[p], path[p + 1])
       ELSE matrix_get(TransMatrix(a.tp, a.internal, NStates(states)),
                       mat.tree, states, path[p], path[p + 1])

\* C10: a traceback that returns has no step of probability 0 in its path
C10_NoZeroProbabilityStep ==
    TracebackReturned =>
        \A p \in Sites(run.arg) :
            (p + 1 \in Sites(run.arg) /\ thread_path[p] # PathUnset
               /\ thread_path[p + 1] # PathUnset)
                => StepProb(run.arg, p, thread_path) # 0

-----------------------------------------------------------------------------
(* Properties of the order of the passes *)

\* a pin that names a state the block does not have
PinnedAbsent(states, state) == ~is_null(state) /\ find_vector(states, state) = -1

\* C11: in the conditional drivers a pinned start state absent from the
\* States of the first block stops the run before the forward pass stores a
\* column, a pinned end state absent from the States of the last block stops
\* it before the traceback stores a path entry, and the thread has not been
\* added to the ARG when the run stops
C11_AbsentPinStopsRun ==
    CondDriver(run.driver) =>
        /\ (PinnedAbsent(FirstStates(run.arg), run.start_state) /\ pc # "begin")
              => (pc = "abort" /\ err = "j != -1" /\ fw_log = <<>> /\ ~threaded)
        /\ (PinnedAbsent(LastStates(run.arg), run.end_state)
              /\ pc \notin {"begin", "forward", "pin_end"})
              => (pc = "abort" /\ path_log = <<>> /\ ~threaded)

\* C12: arghmm_forward_alg stores the forward columns in strictly increasing
\* position, each one once: no column is stored again after a later one
C12_ColumnsStoredInIncreasingOrder ==
    \A i, j \in DOMAIN fw_log : i < j => fw_log[i].pos < fw_log[j].pos

\* the forward pass returned on an ARG of two blocks, the second one a
\* continuation without switch, and stored every column of at least 3 sites
C12_Witness ==
    /\ ForwardReturned
    /\ Len(run.arg.blocks) = 2 /\ ~HasSwitch(run.arg.blocks[2].sw)
    /\ end_coord(run.arg.blocks) >= 3
    /\ Len(fw_log) = end_coord(run.arg.blocks) - start_coord

\* C13: the tracebacks store the path entries in strictly decreasing
\* position, none twice, and never store into a pinned path[end_coord-1]
C13_PathStoredInDecreasingOrder ==
    /\ \A i, j \in DOMAIN path_log : i < j => path_log[i].pos > path_log[j].pos
    /\ given.last_state =>
          \A i \in DOMAIN path_log : path_log[i].pos # end_coord(run.arg.blocks) - 1

\* a traceback from a pinned last state returned on an ARG of two blocks and
\* at least 3 sites, having stored every entry but the pinned one
C13_Witness ==
    /\ TracebackReturned /\ given.last_state /\ ~MaxDriver(run.driver)
    /\ Len(run.arg.blocks) = 2
    /\ end_coord(run.arg.blocks) >= 3
    /\ Len(path_log) = end_coord(run.arg.blocks) - start_coord - 1

\* C14: a step of a traceback is taken only once arghmm_forward_alg has
\* returned, every column of the table stored, and it leaves the forward
\* table as it is
C14_TracebackAfterForward ==
    [][(pc \in {"trace_begin", "trace"}) =>
          ((\A p \in Sites(run.arg) : forward[p] # Unwritten)
           /\ forward' = forward
           /\ fw_log' = fw_log)]_vars

\* a traceback returned after storing several path entries from a forward
\* table of several columns
C14_Witness ==
    /\ AddsThread(run.driver) /\ pc = "traced"
    /\ Len(path_log) >= 2 /\ Len(fw_log) >= 2

\* position p is the first one of a block that is not the first block and
\* has a switch operator
SwitchInto(a, p) ==
    \E b \in 2..Len(a.blocks) : p = BlockStart(a.blocks, b) /\ HasSwitch(a.blocks[b].sw)

\* C15: the switch operator gives exactly the steps into the first position
\* of a later block that has one, in the forward pass and in the tracebacks;
\* every other step, the one into a later block without switch included, is
\* taken with the within-block operator
C15_SwitchOnlyAtSwitchBoundaries ==
    /\ \A i \in DOMAIN fw_log :
          (fw_log[i].op = "switch") <=> SwitchInto(run.arg, fw_log[i].pos)
    /\ \A i \in DOMAIN path_log :
          (path_log[i].op = "switch") <=> SwitchInto(run.arg, path_log[i].pos + 1)
    /\ ForwardReturned =>
          \A p \in Sites(run.arg) :
             p > start_coord => \E i \in DOMAIN fw_log : fw_log[i].pos = p
    /\ TracebackReturned =>
          \A p \in Sites(run.arg) :
             p + 1 \in Sites(run.arg) => \E i \in DOMAIN path_log : path_log[i].pos = p

\* C17: with no pinned last state stochastic_traceback starts its running
\* likelihood with the logarithm of the forward value of the state it
\* sampled at end_coord - 1
C17_LnlStartsWithLog ==
    LET e == end_coord(run.arg.blocks) - 1
    IN (pc = "trace" /\ iter = Len(run.arg.blocks) /\ ~MaxDriver(run.driver)
          /\ ~given.last_state)
         => lnl = <<Term(TRUE, forward[e].v[thread_path[e]], forward[e].d)>>

\* a switch operator that maps every state to itself with probability 1 and
\* has no recombination or recoalescence source
IdentitySwitch(sw) ==
    /\ HasSwitch(sw)
    /\ sw.nstates1 = sw.nstates2
    /\ sw.recombsrc = -1 /\ sw.recoalsrc = -1
    /\ \A j \in DOMAIN sw.determ : sw.determ[j] = j /\ sw.determprob[j] = 1

\* column c is proportional to the weights w
Proportional(c, w) ==
    /\ \A j, k \in DOMAIN w : c.v[j] * w[k] = c.v[k] * w[j]
    /\ (\E k \in DOMAIN w : w[k] > 0) => \E k \in DOMAIN w : c.v[k] > 0

\* C18: across a boundary whose switch operator is the identity the forward
\* column is proportional to col1[k] * emit[k], and the traceback gives
\* path[pos-1] = path[pos]
C18_IdentitySwitchIsContinuation ==
    \A b \in 2..Len(run.arg.blocks) :
        LET pos == BlockStart(run.arg.blocks, b)
            col1 == forward[pos - 1]
            emit == matrices_emit(run.arg, b)[0]
        IN IdentitySwitch(run.arg.blocks[b].sw) =>
             /\ (\E i \in DOMAIN fw_log : fw_log[i].pos = pos) /\ col1.d > 0
                  => Proportional(forward[pos],
                                  [k \in DOMAIN col1.v |-> col1.v[k] * emit[k]])
             /\ (\E i \in DOMAIN path_log : path_log[i].pos = pos - 1)
                  => thread_path[pos - 1] = thread_path[pos]


\* a run crossed a boundary whose switch is the identity on two or more
\* states, in the forward pass and in the traceback, with positive forward
\* values on both sides
C18_Witness ==
    \E b \in 2..Len(run.arg.blocks) :
        LET pos == BlockStart(run.arg.blocks, b)
        IN /\ IdentitySwitch(run.arg.blocks[b].sw)
           /\ run.arg.blocks[b].sw.nstates1 >= 2
           /\ TracebackReturned
           /\ \E i \in DOMAIN fw_log : fw_log[i] = Stored(pos, "switch")
           /\ \E i \in DOMAIN path_log : path_log[i] = Stored(pos - 1, "switch")
           /\ forward[pos - 1].d > 0 /\ forward[pos].d > 0
           /\ thread_path[pos] >= 1


-----------------------------------------------------------------------------
(* Properties of the emissions *)

\* C16: in calc_emissions the column of an invariant site is constant: every
\* state k gets 1/4 exp(-mu max(treelen, mintime)), treelen the sum of the
\* floored branch lengths of the local tree of the block
C16_InvariantSiteConstant ==
    (emitFast.ran /\ emitFast.ok) =>
        \A i \in 0..(ein.seqlen - 1) :
            find_invariant_sites(ein.seqs, ein.nseqs, ein.seqlen)[i] =>
                \A k \in DOMAIN emitFast.emit[i] :
                    emitFast.emit[i][k] = InvariantLk(ein.mu, TreeLen(ein.tree))

\* the members of a sequence
SeqSet(seq) == {seq[i] : i \in 1..Len(seq)}

\* C19: in calc_emissions, from the second state on, the rows computed at a
\* site that is not invariant are those of the nodes on the root paths of
\* the previous and of the new attachment node, and of no other node
C19_OnlyRootPathsRecomputed ==
    (emitFast.ran /\ emitFast.ok
        /\ \E i \in 0..(ein.seqlen - 1) :
              ~find_invariant_sites(ein.seqs, ein.nseqs, ein.seqlen)[i]) =>
        \A n \in 2..Len(emitFast.calls) :
            LET call == emitFast.calls[n]
            IN call.prev_node # -1 =>
                 SeqSet(call.order) \subseteq
                    (SeqSet(RootPath(call.tree, call.prev_node))
                     \cup SeqSet(RootPath(call.tree, call.new_node)))

-----------------------------------------------------------------------------
(* SpecSites: likelihood_sites on one tree with a branch added, one site,  *)
(* and any pair of its nodes as prev_node and new_node                     *)

\* the trees calc_emissions hands to likelihood_sites
SitesTrees ==
    UNION {{add_tree_branch(tree, states[k].node, states[k].time) : k \in DOMAIN states} :
           <<tree, states>> \in {<<t, get_coal_states(t, ntimes, FALSE)>> : t \in EmitTrees}}

InitSites ==
    /\ \E tree \in SitesTrees, mu \in MuParams, g \in GarbageRows :
         \E prev_node, new_node \in -1..(tree.nnodes - 1) :
           \E seqs \in [0..(get_num_leaves(tree) - 1) -> [0..0 -> {"A", "C"}]] :
              /\ (prev_node = -1) = (new_node = -1)
              /\ lin = [ran |-> TRUE, tree |-> tree, mu |-> mu, seqs |-> seqs,
                        prev_node |-> prev_node, new_node |-> new_node,
                        table |-> [i \in 0..0 |-> [n \in 0..(tree.nnodes - 1) |-> g]]]
    /\ lout = NotRun
    /\ bin = NotRun
    /\ fwFast = NotRun
    /\ fwSlow = NotRun
    /\ EmitIdle
    /\ DriverIdle

\* one call of likelihood_sites for state 0 of a one-site alignment
RunLikelihoodSites ==
    /\ ~lout.ran
    /\ LET nseqs == get_num_leaves(lin.tree)
           r == likelihood_sites(lin.tree, lin.mu, lin.seqs, 1, 0,
                                 find_invariant_sites(lin.seqs, nseqs, 1),
                                 [i \in 0..0 |-> [k \in 0..0 |-> EmitUnset]],
                                 lin.table, lin.prev_node, lin.new_node)
       IN lout' = [ran |-> TRUE, emit |-> r.emit, order |-> r.order, ok |-> r.ok]
    /\ UNCHANGED <<lin, blockVars, emitVars, driverVars>>

NextSites == RunLikelihoodSites

SpecSites == InitSites /\ [][NextSites]_vars

\* the nodes from j up to the root, j included
Ancestors(tree, j) == SeqSet(RootPath(tree, j))

\* C20: called with prev_node # -1, likelihood_sites builds an order that
\* holds every ancestor-or-self of prev_node and of new_node once and no
\* other node, every node after its children in the order, the root last,
\* and the loop that builds it ends for every pair of nodes
C20_OrderIsRootPathsPostorder ==
    (lout.ran /\ lin.prev_node # -1) =>
        LET tree == lin.tree
            order == lout.order
        IN /\ lout.ok
           /\ SeqSet(order) = Ancestors(tree, lin.prev_node) \cup Ancestors(tree, lin.new_node)
           /\ \A i, j \in 1..Len(order) : i # j => order[i] # order[j]
           /\ \A i, j \in 1..Len(order) :
                 tree.nodes[order[j]].parent = order[i] => j < i
           /\ order[Len(order)] = tree.root

\* likelihood_sites ran for two nodes neither of which is above the other,
\* on a tree where their root paths meet below the root
C20_Witness ==
    /\ lout.ran /\ lin.prev_node # -1 /\ lout.ok
    /\ lin.prev_node \notin Ancestors(lin.tree, lin.new_node)
    /\ lin.new_node \notin Ancestors(lin.tree, lin.prev_node)
    /\ Len(lout.order) >= 4
    /\ Len(lout.order) < lin.tree.nnodes


-----------------------------------------------------------------------------
(* Properties of the steps across a boundary without switch *)

\* the places of the stores of position p in a log
StoresOf(log, p) == {i \in DOMAIN log : log[i].pos = p}

\* block b is a later block without switch operator
Continues(a, b) == b \in 2..Len(a.blocks) /\ ~HasSwitch(a.blocks[b].sw)

\* C21: at a boundary whose later block has no switch operator
\* stochastic_traceback stores path[pos-1] once, drawn from
\* A[j] = fw[pos-1][j] * T(j -> path[pos]) with the transition operator of
\* the later block, and path[pos] is not stored again
C21_ContinuationStepSamplesOnePosition ==
    SamplingDriver(run.driver) =>
        \A b \in 2..Len(run.arg.blocks) :
            LET a == run.arg
                pos == BlockStart(a.blocks, b)
                tree == a.blocks[b].tree
                states == get_coal_states(tree, ntimes, a.internal)
                transmat == TransMatrix(a.tp, a.internal, NStates(states))
                n == Max2(NStates(states), 1)
                A == [j \in 0..(n - 1) |->
                        forward[pos - 1].v[j]
                          * matrix_get(transmat, tree, states, j, thread_path[pos])]
                before == StoresOf(path_log, pos - 1)
                at == StoresOf(path_log, pos)
            IN Continues(a, b) =>
                 /\ TracebackReturned => before # {}
                 /\ before # {} =>
                      /\ Cardinality(before) = 1
                      /\ \A i \in before : path_log[i].op = "block"
                      /\ thread_path[pos - 1] \in sample(A, n)
                      /\ Cardinality(at) <= 1
                      /\ \A i \in at, j \in before : i < j

\* a sampled path returned across a boundary without switch on two or more
\* states, the column before the boundary holding a state of weight 0
C21_Witness ==
    /\ SamplingDriver(run.driver) /\ TracebackReturned
    /\ \E b \in 2..Len(run.arg.blocks) :
         LET pos == BlockStart(run.arg.blocks, b)
         IN /\ Continues(run.arg, b)
            /\ NStatesOf(run.arg.blocks[b].tree, run.arg.internal) >= 2
            /\ StoresOf(path_log, pos - 1) # {}
            /\ StoresOf(path_log, pos) # {}
            /\ \E j \in DOMAIN forward[pos - 1].v : forward[pos - 1].v[j] = 0


\* C22: with prior_given arghmm_forward_alg leaves the column at start_coord
\* as the caller supplied it, neither allocated again nor stored into, and
\* the first column it stores is the one at start_coord + 1
C22_GivenPriorColumnKept ==
    [][(pc = "forward" /\ given.prior) =>
          (/\ forward'[start_coord] = forward[start_coord]
           /\ \A i \in DOMAIN fw_log' : fw_log'[i].pos > start_coord
           /\ fw_log' # <<>> => fw_log'[1].pos = start_coord + 1)]_vars


\* the column that follows col1 under the transition operator of block b and
\* the emission row emit2: the sum over the sources of col1[j] * T(j -> k),
\* times emit2[k], normalized
DenseStep(a, b, col1, emit2) ==
    LET tree == a.blocks[b].tree
        states == get_coal_states(tree, ntimes, a.internal)
        matrix == TransMatrix(a.tp, a.internal, NStates(states))
        n == Max2(NStates(states), 1)
    IN SlowColumn([j \in 0..(n - 1) |-> [k \in 0..(n - 1) |->
                      matrix_get(matrix, tree, states, j, k)]], n, col1, emit2)

-----------------------------------------------------------------------------
(* Properties of the factored step of one block (SpecBlock) *)

BlockStates == get_coal_states(bin.tree, ntimes, bin.internal)

BlockMinage ==
    IF bin.internal THEN bin.tree.nodes[bin.tree.nodes[bin.tree.root].child[0]].age
    ELSE 0

\* the mass of the source states of time a
GroupSum(states, col1, a) ==
    SumRange([j \in 0..(NStates(states) - 1) |->
                IF states[j].time = a THEN col1.v[j] ELSE 0], 0, NStates(states) - 1)

\* the baseline of destination time b, summed over every source time
FullBaseline(states, col1, b) ==
    SumRange([a \in 0..(ntimes - 1) |->
                time_only(bin.tp, a, b, BlockMinage) * GroupSum(states, col1, a)],
             0, ntimes - 1)

\* the correction of destination k, summed over the sources of its branch
BranchCorrection(states, col1, k) ==
    SumRange([j \in 0..(NStates(states) - 1) |->
                IF states[j].node = states[k].node
                THEN (same_branch(bin.tp, states[j].time, states[k].time,
                                  bin.tree.nodes[states[k].node].age, BlockMinage)
                      - time_only(bin.tp, states[j].time, states[k].time, BlockMinage))
                     * col1.v[j]
                ELSE 0], 0, NStates(states) - 1)

FullBaselineStep(states, col1, emit2) ==
    Normalize([k \in 0..(NStates(states) - 1) |->
                (FullBaseline(states, col1, states[k].time)
                 + BranchCorrection(states, col1, k)) * emit2[k]], NStates(states))

C26_SameBranchReadsOwnBranch ==
    fwFast.ran =>
        \A r \in fwFast.reads :
            /\ r.j \in 0..(NStates(BlockStates) - 1)
            /\ BlockStates[r.j] = State(BlockStates[r.k].node, r.a)

\* a read of the loop at an index past 0 and a time past the node's age,
\* and a read of a source other than the destination
C26_Witness ==
    /\ fwFast.ran
    /\ \E r \in fwFast.reads :
          r.j > 0 /\ r.a > bin.tree.nodes[BlockStates[r.k].node].age
    /\ \E r \in fwFast.reads : r.k # r.j

-----------------------------------------------------------------------------
(* SpecPosterior: the end of arghmm_sample_posterior, which turns the      *)
(* state indices the traceback left in ipath into (node, time) pairs.      *)
(* ipath is any path of indices of the states of each site's block, which  *)
(* is what stochastic_traceback leaves under a dense operator.             *)

\* what new intstate [seqlen], or a read past the end of states, may hold
RawStates == {NullState, State(0, 0)}

IndexPaths(blocks) ==
    {ipath \in [start_coord..(end_coord(blocks) - 1) -> 0..4] :
        \A p \in start_coord..(end_coord(blocks) - 1) :
            ipath[p] < NStatesOf(blocks[BlockOf(blocks, p, 1)].tree, FALSE)}

\* the loop over the blocks: `int end = start + it->blocklen` declares a new
\* end inside the body, so the outer end stays trees.start_coord and every
\* block starts there
RECURSIVE ConvertPath(_, _, _, _, _)
ConvertPath(blocks, b, ipath, path, raw) ==
    IF b > Len(blocks) THEN path
    ELSE LET states == get_coal_states(blocks[b].tree, ntimes, FALSE)
             start == start_coord
             end == start + blocks[b].blocklen
         IN ConvertPath(blocks, b + 1, ipath,
                [i \in DOMAIN path |->
                    IF i \in start..(end - 1)
                    THEN (IF ipath[i] \in DOMAIN states THEN states[ipath[i]] ELSE raw)
                    ELSE path[i]], raw)

InitPosterior ==
    /\ \E blocks \in BlockSeqs(FALSE), raw \in RawStates :
         \E ipath \in IndexPaths(blocks) :
            lin = [ran |-> TRUE, blocks |-> blocks, ipath |-> ipath, raw |-> raw]
    /\ lout = NotRun
    /\ bin = NotRun
    /\ fwFast = NotRun
    /\ fwSlow = NotRun
    /\ EmitIdle
    /\ DriverIdle

\* arghmm_sample_posterior from "convert path" to its return
RunSamplePosterior ==
    /\ ~lout.ran
    /\ lout' = [ran |-> TRUE,
                path |-> ConvertPath(lin.blocks, 1, lin.ipath,
                            [i \in DOMAIN lin.ipath |-> lin.raw], lin.raw)]
    /\ UNCHANGED <<lin, blockVars, emitVars, driverVars>>

NextPosterior == RunSamplePosterior

SpecPosterior == InitPosterior /\ [][NextPosterior]_vars

\* C27: arghmm_sample_posterior returns, for every site i of [0, seqlen),
\* path[i] = (node, time) of entry ipath[i] of the state set of the block
\* that holds i, whatever the number of blocks of the ARG
C27_PathOfEveryBlock ==
    lout.ran =>
        \A i \in DOMAIN lin.ipath :
            lout.path[i] = get_coal_states(lin.blocks[BlockOf(lin.blocks, i, 1)].tree,
                                           ntimes, FALSE)[lin.ipath[i]]

-----------------------------------------------------------------------------
(* SpecParsimony: parsimony_ancestral_seq on one site.  The sets of the    *)
(* nodes are bit masks: A = 1, C = 2, G = 4, T = 8.                        *)

Bases == {"A", "C", "G", "T"}

\* int2dna[i]
int2dna(i) == CASE i = 0 -> "A" [] i = 1 -> "C" [] i = 2 -> "G" [] OTHER -> "T"

\* x & y
RECURSIVE BitAnd(_, _)
BitAnd(x, y) ==
    IF x = 0 \/ y = 0 THEN 0
    ELSE (x % 2) * (y % 2) + 2 * BitAnd(x \div 2, y \div 2)

\* x | y
BitOr(x, y) == x + y - BitAnd(x, y)

\* (s & 1) ? int2dna[0] : (s & 2) ? int2dna[1] : (s & 4) ? int2dna[2] : int2dna[3]
FirstBase(s) ==
    IF BitAnd(s, 1) # 0 THEN int2dna(0)
    ELSE IF BitAnd(s, 2) # 0 THEN int2dna(1)
    ELSE IF BitAnd(s, 4) # 0 THEN int2dna(2)
    ELSE int2dna(3)

\* the postorder pass that fills sets[]
RECURSIVE ParsimonySets(_, _, _, _, _, _)
ParsimonySets(tree, seqs, pos, postorder, i, sets) ==
    IF i > Len(postorder) THEN sets
    ELSE LET node == postorder[i]
             c == seqs[node][pos]
             lset == sets[tree.nodes[node].child[0]]
             rset == sets[tree.nodes[node].child[1]]
             intersect == BitAnd(lset, rset)
             set == IF is_leaf(tree, node)
                    THEN (IF c = "N" THEN 1 + 2 + 4 + 8 ELSE 2 ^ dna2int(c))
                    ELSE IF intersect > 0 THEN intersect
                    ELSE BitOr(lset, rset)
         IN ParsimonySets(tree, seqs, pos, postorder, i + 1, [sets EXCEPT ![node] = set])

\* the traceback from the node before the root down to the first node of
\* the postorder
RECURSIVE ParsimonyTraceback(_, _, _, _, _)
ParsimonyTraceback(tree, postorder, sets, i, ancestral) ==
    IF i < 1 THEN ancestral
    ELSE LET node == postorder[i]
             set == sets[node]
             pchar == ancestral[tree.nodes[node].parent]
             base == CASE set = 1 -> int2dna(0)
                       [] set = 2 -> int2dna(1)
                       [] set = 4 -> int2dna(2)
                       [] set = 8 -> int2dna(3)
                       [] OTHER -> IF BitAnd(dna2int(pchar), set) # 0 THEN pchar
                                   ELSE FirstBase(set)
         IN ParsimonyTraceback(tree, postorder, sets, i - 1,
                               [ancestral EXCEPT ![node] = base])

parsimony_ancestral_seq(tree, seqs, pos) ==
    LET postorder == get_postorder(tree)
        sets == ParsimonySets(tree, seqs, pos, postorder, 1,
                              [node \in 0..(tree.nnodes - 1) |-> 0])
        root == postorder[tree.nnodes]
    IN ParsimonyTraceback(tree, postorder, sets, tree.nnodes - 1,
            [node \in 0..(tree.nnodes - 1) |->
                IF node = root THEN FirstBase(sets[root]) ELSE ""])

\* trees of 2, 3 and 4 leaves
ParsimonyTrees ==
    LET three == {add_tree_branch(TreeCherry(1), node, 1) : node \in 0..2}
    IN {TreeCherry(1)} \cup three \cup {add_tree_branch(t, t.root, 1) : t \in three}

InitParsimony ==
    /\ \E tree \in ParsimonyTrees :
         \E seqs \in [0..(get_num_leaves(tree) - 1) -> [0..0 -> Bases \cup {"N"}]] :
            lin = [ran |-> TRUE, tree |-> tree, seqs |-> seqs]
    /\ lout = NotRun
    /\ bin = NotRun
    /\ fwFast = NotRun
    /\ fwSlow = NotRun
    /\ EmitIdle
    /\ DriverIdle

RunParsimony ==
    /\ ~lout.ran
    /\ lout' = [ran |-> TRUE, ancestral |-> parsimony_ancestral_seq(lin.tree, lin.seqs, 0)]
    /\ UNCHANGED <<lin, blockVars, emitVars, driverVars>>

NextParsimony == RunParsimony

SpecParsimony == InitParsimony /\ [][NextParsimony]_vars

\* the Fitch set of a node, as a set of bases: a leaf's base (every base
\* for N), else the bases common to the two children, or all of theirs
RECURSIVE FitchSet(_, _, _)
FitchSet(tree, seqs, node) ==
    IF is_leaf(tree, node)
    THEN (IF seqs[node][0] = "N" THEN Bases ELSE {seqs[node][0]})
    ELSE LET l == FitchSet(tree, seqs, tree.nodes[node].child[0])
             r == FitchSet(tree, seqs, tree.nodes[node].child[1])
         IN IF l \cap r # {} THEN l \cap r ELSE l \cup r

\* C28: parsimony_ancestral_seq gives every node but the root a base of
\* its Fitch set, and its parent's base whenever that base is in the set
C28_BaseInFitchSet ==
    lout.ran =>
        \A node \in 0..(lin.tree.nnodes - 1) :
            node # lin.tree.root =>
                LET set == FitchSet(lin.tree, lin.seqs, node)
                    pchar == lout.ancestral[lin.tree.nodes[node].parent]
                IN /\ lout.ancestral[node] \in set
                   /\ pchar \in set => lout.ancestral[node] = pchar

-----------------------------------------------------------------------------
(* SpecTree: likelihood_tree on an alignment.  The value returned is the   *)
(* sum of the logarithms of the terms; the model keeps the terms, by site. *)

\* the loop over the sites start..end-1 with the saved invariant_lk (-1
\* until an invariant site is computed)
RECURSIVE LikelihoodTreeLoop(_, _, _, _)
LikelihoodTreeLoop(c, i, invariant_lk, terms) ==
    IF i >= c.end THEN terms
    ELSE LET invariant == \A j \in 1..(c.nseqs - 1) : c.seqs[j][i] = c.seqs[0][i]
             computed == likelihood_site_inner(c.tree, c.seqs, i, c.order, c.muts,
                                               c.nomuts, c.table).p
             lk == IF invariant /\ invariant_lk > 0 THEN invariant_lk ELSE computed
         IN LikelihoodTreeLoop(c, i + 1,
                IF invariant /\ ~(invariant_lk > 0) THEN computed ELSE invariant_lk,
                Append(terms, lk))

likelihood_tree(tree, mu, seqs, nseqs, start, end, table) ==
    LET t == BranchLens(tree)
    IN LikelihoodTreeLoop(
          [tree |-> tree, seqs |-> seqs, nseqs |-> nseqs, end |-> end, table |-> table,
           order |-> get_postorder(tree),
           muts |-> [i \in 0..(tree.nnodes - 1) |-> prob_branch(t[i], mu, TRUE)],
           nomuts |-> [i \in 0..(tree.nnodes - 1) |-> prob_branch(t[i], mu, FALSE)]],
          start, -1, <<>>)

LikelihoodTrees == {TreeCherry(0), TreeCherry(1), add_tree_branch(TreeCherry(1), 2, 1)}

InitTree ==
    /\ \E tree \in LikelihoodTrees, mu \in MuParams, seqlen \in 1..MaxSeqLen,
          g \in GarbageRows :
         \E seqs \in [0..(get_num_leaves(tree) - 1) -> [0..(seqlen - 1) -> Chars]] :
            lin = [ran |-> TRUE, tree |-> tree, mu |-> mu, seqs |-> seqs,
                   seqlen |-> seqlen, table |-> [n \in 0..(tree.nnodes - 1) |-> g]]
    /\ lout = NotRun
    /\ bin = NotRun
    /\ fwFast = NotRun
    /\ fwSlow = NotRun
    /\ EmitIdle
    /\ DriverIdle

RunLikelihoodTree ==
    /\ ~lout.ran
    /\ lout' = [ran |-> TRUE,
                terms |-> likelihood_tree(lin.tree, lin.mu, lin.seqs,
                                          get_num_leaves(lin.tree), 0, lin.seqlen,
                                          lin.table)]
    /\ UNCHANGED <<lin, blockVars, emitVars, driverVars>>

NextTree == RunLikelihoodTree

SpecTree == InitTree /\ [][NextTree]_vars

\* the pruning likelihood of site i of the call, computed for that site
SitePruning(i) ==
    LET t == BranchLens(lin.tree)
    IN likelihood_site_inner(lin.tree, lin.seqs, i, get_postorder(lin.tree),
          [n \in 0..(lin.tree.nnodes - 1) |-> prob_branch(t[n], lin.mu, TRUE)],
          [n \in 0..(lin.tree.nnodes - 1) |-> prob_branch(t[n], lin.mu, FALSE)],
          lin.table).p

\* C29: the term likelihood_tree adds for a site is the logarithm of that
\* site's own pruning likelihood, also when the term is the value saved
\* from the first invariant site
C29_TermIsSitePruning ==
    lout.ran =>
        /\ Len(lout.terms) = lin.seqlen
        /\ \A i \in 0..(lin.seqlen - 1) : lout.terms[i + 1] = SitePruning(i)

-----------------------------------------------------------------------------
(* Emissions of internal-branch threading (calc_emissions_internal).       *)
(* prob_tree_mutation leaves the entries of the root and of its two        *)
(* children as the arrays were allocated: unset is what they hold.         *)

\* internal threading: the subtree is the leaf 2, the maintree the cherry
\* 0,1 of age 1 (node 3)
TreeRemovedMain ==
    [nnodes |-> 5, root |-> 4,
     nodes |-> [i \in 0..4 |->
        CASE i = 4 -> Inner(-1, 2, 3, ntimes + 1)
          [] i = 3 -> Inner(4, 0, 1, 1)
          [] i = 2 -> Leaf(4)
          [] OTHER -> Leaf(3)]]

\* model->get_removed_root_time()
get_removed_root_time == ntimes + 1

\* tree->get_sibling(node)
get_sibling(tree, node) ==
    LET p == tree.nodes[tree.nodes[node].parent]
    IN IF p.child[0] = node THEN p.child[1] ELSE p.child[0]

\* what an entry of muts[] and nomuts[] nobody stored into may hold
UnsetFills == {[mut |-> 0, nomut |-> 0], [mut |-> 3, nomut |-> 0], [mut |-> 0, nomut |-> 3]}

prob_tree_mutation(tree, mu, unset) ==
    LET skipped(i) == \/ i = tree.root
                      \/ tree.nodes[tree.nodes[i].parent].age = get_removed_root_time
    IN [muts |-> [i \in 0..(tree.nnodes - 1) |->
                    IF skipped(i) THEN unset.mut
                    ELSE prob_branch(BranchLen(tree, i), mu, TRUE)],
        nomuts |-> [i \in 0..(tree.nnodes - 1) |->
                    IF skipped(i) THEN unset.nomut
                    ELSE prob_branch(BranchLen(tree, i), mu, FALSE)]]

\* sum over b of row[b] * (a == b ? nomut : mut)
BranchSum(row, a, mut, nomut) ==
    SumRange([b \in 0..3 |-> row[b] * (IF a = b THEN nomut ELSE mut)], 0, 3)

\* an outer step that treats a child of root as any other node
likelihood_site_node_outer_plain(tree, root, node, muts, nomuts, outer, inner) ==
    LET j == node
        sib == get_sibling(tree, j)
        parent == tree.nodes[j].parent
    IN [outer EXCEPT ![j] =
          IF node = root THEN lk_row(1, 1, 1, 1)
          ELSE [a \in 0..3 |->
                    BranchSum(inner[sib], a, muts[sib], nomuts[sib])
                    * BranchSum(outer[parent], a, muts[parent], nomuts[parent])]]

\* likelihood_site_node_outer: the outer row of one node from the inner row
\* of its sibling and the outer row of its parent
likelihood_site_node_outer(tree, root, node, muts, nomuts, outer, inner) ==
    LET j == node
        sib == get_sibling(tree, j)
        parent == tree.nodes[j].parent
    IN [outer EXCEPT ![j] =
          IF node = root THEN lk_row(1, 1, 1, 1)
          ELSE IF parent # root
          THEN [a \in 0..3 |->
                    BranchSum(inner[sib], a, muts[sib], nomuts[sib])
                    * BranchSum(outer[parent], a, muts[parent], nomuts[parent])]
          ELSE [a \in 0..3 |-> BranchSum(inner[sib], a, muts[sib], nomuts[sib])]]

\* likelihood_site_outer: preorder from the maintree root, with a stack
RECURSIVE OuterLoop(_, _, _, _, _, _, _)
OuterLoop(tree, maintree_root, queue, muts, nomuts, inner, outer) ==
    IF queue = <<>> THEN outer
    ELSE LET node == queue[Len(queue)]
             rest == SubSeq(queue, 1, Len(queue) - 1)
         IN OuterLoop(tree, maintree_root,
                IF is_leaf(tree, node) THEN rest
                ELSE rest \o <<tree.nodes[node].child[0], tree.nodes[node].child[1]>>,
                muts, nomuts, inner,
                likelihood_site_node_outer(tree, maintree_root, node, muts, nomuts,
                                           outer, inner))

likelihood_site_outer(tree, muts, nomuts, inner, outer) ==
    OuterLoop(tree, tree.nodes[tree.root].child[1],
              <<tree.nodes[tree.root].child[1]>>, muts, nomuts, inner, outer)

\* calc_inner_outer: the two tables at the sites that are not invariant
calc_inner_outer(tree, mu, seqs, seqlen, invariant, unset, inner, outer) ==
    LET m == prob_tree_mutation(tree, mu, unset)
        in(i) == likelihood_site_inner(tree, seqs, i, get_postorder(tree),
                                       m.muts, m.nomuts, inner[i]).inner
    IN [inner |-> [i \in 0..(seqlen - 1) |-> IF invariant[i] THEN inner[i] ELSE in(i)],
        outer |-> [i \in 0..(seqlen - 1) |->
                     IF invariant[i] THEN outer[i]
                     ELSE likelihood_site_outer(tree, m.muts, m.nomuts, in(i), outer[i])]]

\* the floored branch lengths of the nodes below top
RECURSIVE LenBelow(_, _, _)
LenBelow(tree, node, top) ==
    (IF node # top THEN BranchLen(tree, node) ELSE 0)
    + (IF is_leaf(tree, node) THEN 0
       ELSE LenBelow(tree, tree.nodes[node].child[0], top)
            + LenBelow(tree, tree.nodes[node].child[1], top))

Min2(a, b) == IF a <= b THEN a ELSE b

\* the emission of state j at site i
InternalEmission(tree, mu, state, in, out) ==
    LET maintree_root == tree.nodes[tree.root].child[1]
        node1 == tree.nodes[tree.root].child[0]
        node2 == state.node
        parent == tree.nodes[node2].parent
        time1 == times(tree.nodes[node1].age)
        time2 == times(tree.nodes[node2].age)
        parent_time == times(Min2(tree.nodes[parent].age, ntimes - 1))
        coal_time == times(state.time)
        dist1 == Max2(coal_time - time1, mintime)
        dist2 == Max2(coal_time - time2, mintime)
        dist3 == Max2(parent_time - coal_time, mintime)
        p1(a) == BranchSum(in[node1], a, prob_branch(dist1, mu, TRUE),
                           prob_branch(dist1, mu, FALSE))
        p2(a) == BranchSum(in[node2], a, prob_branch(dist2, mu, TRUE),
                           prob_branch(dist2, mu, FALSE))
        p3(a) == BranchSum(out[node2], a, prob_branch(dist3, mu, TRUE),
                           prob_branch(dist3, mu, FALSE))
    IN SiteLk(SumRange([a \in 0..3 |->
                IF node2 # maintree_root THEN p1(a) * p2(a) * p3(a)
                ELSE p1(a) * p2(a)], 0, 3))

\* the tree length of state j
InternalTreeLen(tree, state) ==
    LET maintree_root == tree.nodes[tree.root].child[1]
        subtree_root == tree.nodes[tree.root].child[0]
        coal_time == times(state.time)
        time1 == times(tree.nodes[subtree_root].age)
    IN LenBelow(tree, maintree_root, maintree_root)
       + LenBelow(tree, subtree_root, subtree_root)
       + Max2(coal_time - time1, mintime)
       + (IF state.node = maintree_root
          THEN Max2(coal_time - times(tree.nodes[maintree_root].age), mintime)
          ELSE 0)

\* calc_emissions_internal: emit[i][j]; with no state only emit[i][0] = 1
calc_emissions_internal(states, tree, seqs, nseqs, seqlen, mu, unset, table) ==
    LET nstates == NStates(states)
        invariant == find_invariant_sites(seqs, nseqs, seqlen)
        io == calc_inner_outer(tree, mu, seqs, seqlen, invariant, unset, table, table)
    IN IF nstates = 0
       THEN [i \in 0..(seqlen - 1) |-> [j \in 0..0 |-> 1]]
       ELSE [i \in 0..(seqlen - 1) |-> [j \in 0..(nstates - 1) |->
                IF invariant[i]
                THEN InvariantLk(mu, InternalTreeLen(tree, states[j]))
                ELSE InternalEmission(tree, mu, states[j], io.inner[i], io.outer[i])]]

-----------------------------------------------------------------------------
(* SpecInternal: calc_emissions_internal run twice on the same inputs,     *)
(* with two fills of the entries prob_tree_mutation leaves unset           *)

InternalCalls(tree, seqlen) ==
    {[ran |-> TRUE, tree |-> tree, mu |-> mu, seqs |-> seqs, seqlen |-> seqlen,
      unset |-> u, unset_other |-> w,
      table |-> [i \in 0..(seqlen - 1) |-> [n \in 0..(tree.nnodes - 1) |-> g]]] :
        mu \in MuParams, g \in GarbageRows, u \in UnsetFills, w \in UnsetFills,
        seqs \in [0..(get_num_leaves(tree) - 1) ->
                    [0..(seqlen - 1) -> {"A", "C"}]]}

InitInternal ==
    /\ lin \in UNION {InternalCalls(tree, seqlen) :
                        tree \in {TreeRemovedLeaf, TreeRemovedCherry, TreeRemovedMain},
                        seqlen \in 1..MaxSeqLen}
    /\ lout = NotRun
    /\ bin = NotRun
    /\ fwFast = NotRun
    /\ fwSlow = NotRun
    /\ EmitIdle
    /\ DriverIdle

InternalCall(unset) ==
    calc_emissions_internal(get_coal_states(lin.tree, ntimes, TRUE), lin.tree, lin.seqs,
                            get_num_leaves(lin.tree), lin.seqlen, lin.mu, unset,
                            lin.table)

RunCalcEmissionsInternal ==
    /\ ~lout.ran
    /\ lout' = [ran |-> TRUE, emit |-> InternalCall(lin.unset),
                emit_other |-> InternalCall(lin.unset_other)]
    /\ UNCHANGED <<lin, blockVars, emitVars, driverVars>>

NextInternal == RunCalcEmissionsInternal

SpecInternal == InitInternal /\ [][NextInternal]_vars

\* C30: two runs of calc_emissions_internal that differ only in what the
\* entries of muts[] and nomuts[] left unset by prob_tree_mutation hold
\* give the same emission table
C30_EmissionsIgnoreUnsetEntries == lout.ran => lout.emit = lout.emit_other

\* two runs with different fills, on a tree whose maintree has a node below
\* its root, with a site that is not invariant
C30_Witness ==
    /\ lout.ran
    /\ lin.unset # lin.unset_other
    /\ \E k \in DOMAIN lout.emit[0] :
          /\ ~lout.emit[0][k].invariant
          /\ lout.emit[0][k].p > 0
          /\ get_coal_states(lin.tree, ntimes, TRUE)[k].node
               # lin.tree.nodes[lin.tree.root].child[1]

-----------------------------------------------------------------------------
(* SpecGiven: a block of internal-branch threading whose tree is fully     *)
(* specified (no state): its emissions and its forward columns             *)

GivenTrees == {t \in InternalTrees \cup {TreeCherry(0)} : NStatesOf(t, TRUE) = 0}

InitGiven ==
    /\ \E tree \in GivenTrees, tp \in TransParams, ep \in EmitParams,
          blocklen \in 1..MaxSeqLen, col0 \in FirstCols(1) \cup {RawCol([k \in 0..0 |-> 3], 1)},
          g \in GarbageCols(1) :
         /\ bin = [tree |-> tree, internal |-> TRUE, tp |-> tp, ep |-> ep,
                   blocklen |-> blocklen,
                   fw |-> [i \in 0..(blocklen - 1) |-> IF i = 0 THEN col0 ELSE g]]
         /\ lin \in InternalCalls(tree, blocklen)
    /\ lout = NotRun
    /\ fwFast = NotRun
    /\ fwSlow = NotRun
    /\ EmitIdle
    /\ DriverIdle

NextGiven == RunForwardBlock \/ RunCalcEmissionsInternal

SpecGiven == InitGiven /\ [][NextGiven]_vars

\* C24: with no state, arghmm_forward_block leaves in every column the
\* single entry 0, equal to entry 0 of the first column, and
\* calc_emissions_internal sets emit[i][0] = 1 at every site, and nothing
\* else
C24_GivenBlockCopiesFirstEntry ==
    /\ fwFast.ran =>
          \A i \in 0..(bin.blocklen - 1) : fwFast.cols[i] = bin.fw[0]
    /\ lout.ran =>
          \A i \in 0..(lin.seqlen - 1) :
              DOMAIN lout.emit[i] = {0} /\ lout.emit[i][0] = 1

\* both functions ran on a block of two sites whose second column held
\* something else than the first
C24_Witness ==
    /\ fwFast.ran /\ lout.ran
    /\ bin.blocklen >= 2
    /\ bin.fw[1] # bin.fw[0]
    /\ NStates(get_coal_states(bin.tree, ntimes, TRUE)) = 0

====
